---------------------------- MODULE Spec2Model ----------------------------
(***************************************************************************)
(* Model of PluginCollectionManager                                        *)
(* (src/v3/@claude-flow/cli/src/config-adapter.ts, lines 270-838).         *)
(*                                                                         *)
(* The manager's fields are the variables; every public method is an       *)
(* operator from a manager state to a result (new state, thrown error,     *)
(* returned value, calls made in order) and an action that commits the     *)
(* new state.                                                              *)
(* One manager call runs at a time (event-loop semantics), so each call is *)
(* one atomic step.  The properties are stated on the results of the       *)
(* operators in every reachable state, for every input of the call.        *)
(*                                                                         *)
(* JavaScript values that the code passes around without inspecting their  *)
(* type (an entry, a Promise, undefined, a boolean) are tagged records, so *)
(* that `if (x)` and `x.plugin` are computed as the runtime computes them. *)
(* The private helpers findPluginEntry and isPluginEnabled are declared    *)
(* `async` (lines 791, 804) and are called without `await` at lines 301,   *)
(* 362, 387, 415, 418, 535, 564, 624 and 766: at those places the caller   *)
(* holds a Promise, which is truthy and has no `plugin` property.          *)
(***************************************************************************)
EXTENDS Integers, Sequences, FiniteSets, TLC

VARIABLES
    collections,        \* Map<string, PluginCollection>, in insertion order (line 271)
    enabledOverrides,   \* Map<string, Set<string>> (line 272)
    disabledOverrides,  \* Map<string, Set<string>> (line 273)
    pluginSettings,     \* Map<string, Record<string, unknown>> (line 274)
    registered,         \* names the external PluginRegistry holds (line 275)
    frames              \* the calls in flight, one slot each

vars == <<collections, enabledOverrides, disabledOverrides, pluginSettings,
          registered, frames>>

-----------------------------------------------------------------------------
(* Bounds of the model *)

\* how many collection objects of CatalogueSeq callers may pass to loadCollection
NumCollections == 2

\* how many payloads of PayloadSeq callers may pass to set/updatePluginSettings
NumPayloads == 1

\* how many calls may be in flight at once
MaxInFlight == 2

-----------------------------------------------------------------------------
(* JavaScript values *)

Undefined == [t |-> "undefined"]

JsBool(b) == [t |-> "boolean", b |-> b]

JsError(kind) == [t |-> "error", kind |-> kind]

\* the Promise an async function returns: fulfilled with its return value,
\* or rejected with what its body threw
Fulfilled(v) == [t |-> "promise", state |-> "fulfilled", value |-> v]

Rejected(kind) == [t |-> "promise", state |-> "rejected", value |-> JsError(kind)]

\* ToBoolean: undefined and false are falsy, every object (a Promise too) is truthy
Truthy(v) ==
    CASE v.t = "undefined" -> FALSE
      [] v.t = "boolean"   -> v.b
      [] OTHER             -> TRUE

\* v.plugin: the property of an entry; a Promise has no such property
PropPlugin(v) == IF v.t = "entry" THEN v.plugin ELSE Undefined

-----------------------------------------------------------------------------
(* Collections callers construct (PluginCollection, lines 221-231) *)

Descriptor(n) == [t |-> "descriptor", name |-> n]

Factory(n) == [t |-> "factory", name |-> n]

\* a string[] value
Array(items) == [t |-> "array", items |-> items]

\* a string value
Str(text) == [t |-> "string", text |-> text]

\* tags and description are optional: an Array or Undefined, a Str or Undefined
Entry(p, d, c, tags, description) ==
    [t |-> "entry", plugin |-> p, defaultEnabled |-> d, category |-> c,
     tags |-> tags, description |-> description]

\* plugin.metadata.description of the plugins of the fixture (optional)
MetadataDescription(name) ==
    IF name = "tracer" THEN Str("spans") ELSE Undefined

Collection(id, plugins) == [t |-> "collection", id |-> id, plugins |-> plugins]

CatalogueSeq ==
    << Collection("core", << Entry(Descriptor("logger"), TRUE, "utility",
                                   Array(<< "io", "Log" >>), Str("trace sink")),
                             Entry(Factory("tracer"), FALSE, "utility",
                                   Undefined, Undefined) >>),
       Collection("ext", << Entry(Factory("logger"), FALSE, "provider",
                                  Array(<< "io" >>), Str("LOG shipper")) >>),
       Collection("core", << Entry(Descriptor("tracer"), TRUE, "utility",
                                   Undefined, Undefined) >>),
       Collection("extra", << Entry(Descriptor("tracer"), FALSE, "utility",
                                    Array(<< >>), Undefined) >>),
       Collection("more", << >>) >>

Catalogue == { CatalogueSeq[i] : i \in 1..NumCollections }

CollectionIds == { c.id : c \in Catalogue }

\* ids callers pass: the ids of the catalogue and one that no collection has
ArgIds == CollectionIds \cup {"nope"}

\* plugin names callers pass
ArgNames == {"logger", "tracer"}

-----------------------------------------------------------------------------
(* Map<string, PluginCollection>: a sequence of collections, keys unique *)

MapHas(m, id) == \E i \in 1..Len(m) : m[i].id = id

MapGet(m, id) ==
    IF MapHas(m, id)
    THEN m[CHOOSE i \in 1..Len(m) : m[i].id = id]
    ELSE Undefined

MapSet(m, c) ==
    IF MapHas(m, c.id)
    THEN [i \in 1..Len(m) |-> IF m[i].id = c.id THEN c ELSE m[i]]
    ELSE Append(m, c)

MapDelete(m, id) == SelectSeq(m, LAMBDA c : c.id # id)

MapKeys(m) == { m[i].id : i \in 1..Len(m) }

-----------------------------------------------------------------------------
(* Map<string, Set<string>>: a function from the keys present to sets *)

SetsSet(m, id, s) == [k \in DOMAIN m \cup {id} |-> IF k = id THEN s ELSE m[k]]

SetsDelete(m, id) == [k \in DOMAIN m \ {id} |-> m[k]]

\* m.get(id)?.has(n)
SetsHas(m, id, n) == id \in DOMAIN m /\ n \in m[id]

\* m.get(id)?.add(n)
SetsAdd(m, id, n) == IF id \in DOMAIN m THEN [m EXCEPT ![id] = @ \cup {n}] ELSE m

\* m.get(id)?.delete(n)
SetsRemove(m, id, n) == IF id \in DOMAIN m THEN [m EXCEPT ![id] = @ \ {n}] ELSE m

EmptyMap == [k \in {} |-> {}]

-----------------------------------------------------------------------------
(* The manager's state and the result of a call *)

State == [collections       |-> collections,
          enabledOverrides  |-> enabledOverrides,
          disabledOverrides |-> disabledOverrides,
          pluginSettings    |-> pluginSettings,
          registered        |-> registered]

\* a call that returned v
Return(s, v, cs) == [st |-> s, err |-> "none", ret |-> v, calls |-> cs]

\* a call that threw
Throw(s, kind, cs) == [st |-> s, err |-> kind, ret |-> Undefined, calls |-> cs]

\* what the registry answers during one manager call: the names whose
\* register call fails and the names whose unregister call fails
NoFailure == [failReg |-> {}, failUnreg |-> {}]


-----------------------------------------------------------------------------
(* Settings payloads (Record<string, unknown>): functions from keys to values *)

EmptyPayload == [k \in {} |-> 0]

PayloadSeq == << [level |-> 1], [sink |-> 2], [level |-> 3, sink |-> 1] >>

Payloads == { PayloadSeq[i] : i \in 1..NumPayloads }

\* names whose settings callers change
SettingNames == {"logger"}

\* { ...a, ...b }
Spread(a, b) ==
    [k \in DOMAIN a \cup DOMAIN b |-> IF k \in DOMAIN b THEN b[k] ELSE a[k]]

-----------------------------------------------------------------------------
(* The external PluginRegistry, at its boundary *)

\* registry.getPlugin(name): the plugin when the registry holds it
RegistryGetPlugin(reg, name) == IF name \in reg THEN Descriptor(name) ELSE Undefined

\* registry.register(plugin, config): fails, or holds the plugin afterwards
RegistryRegister(reg, name, orc) ==
    IF name \in orc.failReg
    THEN [ok |-> FALSE, reg |-> reg]
    ELSE [ok |-> TRUE, reg |-> reg \cup {name}]

\* registry.unregister(name): fails (dependents), or drops the plugin
RegistryUnregister(reg, name, orc) ==
    IF name \in orc.failUnreg
    THEN [ok |-> FALSE, reg |-> reg]
    ELSE [ok |-> TRUE, reg |-> reg \ {name}]

RegisterCall(name, ok, settings) ==
    [fn |-> "register", name |-> name, ok |-> ok, enabled |-> TRUE, settings |-> settings]

UnregisterCall(name, ok) ==
    [fn |-> "unregister", name |-> name, ok |-> ok, enabled |-> FALSE,
     settings |-> EmptyPayload]

\* a call this.enablePlugin(id, name) or this.disablePlugin(id, name) that
\* another method of the manager makes, in the same log as the registry calls
MethodCall(fn, collectionId, name) == [fn |-> fn, id |-> collectionId, name |-> name]

-----------------------------------------------------------------------------
(* Private helpers (lines 787-837) *)

\* typeof plugin === 'function' ? await plugin() : plugin
resolvePlugin(plugin) ==
    IF plugin.t = "factory" THEN Descriptor(plugin.name) ELSE plugin

\* the entry the loop of findPluginEntry returns, before it is wrapped
FirstEntryNamed(collection, pluginName) ==
    LET hits == { i \in 1..Len(collection.plugins) :
                    resolvePlugin(collection.plugins[i].plugin).name = pluginName }
    IN IF hits = {}
       THEN Undefined
       ELSE collection.plugins[CHOOSE i \in hits : \A j \in hits : i <= j]

\* async: the caller gets a Promise of the entry (or of undefined)
findPluginEntry(collection, pluginName) ==
    Fulfilled(FirstEntryNamed(collection, pluginName))

\* async: the caller gets a Promise of the boolean; reading plugin.metadata of
\* an undefined plugin throws a TypeError inside the body, which rejects it
isPluginEnabled(s, collectionId, entry) ==
    LET plugin == resolvePlugin(PropPlugin(entry))
    IN IF plugin.t = "undefined"
       THEN Rejected("TypeError")
       ELSE IF SetsHas(s.enabledOverrides, collectionId, plugin.name)
            THEN Fulfilled(JsBool(TRUE))
            ELSE IF SetsHas(s.disabledOverrides, collectionId, plugin.name)
                 THEN Fulfilled(JsBool(FALSE))
                 ELSE Fulfilled(JsBool(entry.defaultEnabled))

\* this.pluginSettings.get(name) ?? {}
SettingsOf(settingsMap, name) ==
    IF name \in DOMAIN settingsMap THEN settingsMap[name] ELSE EmptyPayload

\* registerPlugin passing an empty settings payload whatever is stored
registerPlugin_NoSettings(s, entry, orc, cs) ==
    LET plugin == resolvePlugin(PropPlugin(entry))
    IN IF plugin.t = "undefined"
       THEN Throw(s, "TypeError", cs)
       ELSE LET r == RegistryRegister(s.registered, plugin.name, orc)
                cs2 == Append(cs, RegisterCall(plugin.name, r.ok, EmptyPayload))
            IN IF r.ok
               THEN Return([s EXCEPT !.registered = r.reg], Undefined, cs2)
               ELSE Throw(s, "RegistrationFailure", cs2)

\* awaited by its callers: throws what registry.register throws
registerPlugin(s, entry, orc, cs) ==
    LET plugin == resolvePlugin(PropPlugin(entry))
    IN IF plugin.t = "undefined"
       THEN Throw(s, "TypeError", cs)
       ELSE LET settings == SettingsOf(s.pluginSettings, plugin.name)
                r == RegistryRegister(s.registered, plugin.name, orc)
                cs2 == Append(cs, RegisterCall(plugin.name, r.ok, settings))
            IN IF r.ok
               THEN Return([s EXCEPT !.registered = r.reg], Undefined, cs2)
               ELSE Throw(s, "RegistrationFailure", cs2)

-----------------------------------------------------------------------------
(* Collection management (lines 290-347) *)

RECURSIVE LoadEntries(_, _, _, _, _)
\* the loop of lines 300-304, from entry i on
LoadEntries(s, collection, i, orc, cs) ==
    IF i > Len(collection.plugins)
    THEN Return(s, Undefined, cs)
    ELSE LET entry == collection.plugins[i]
         IN IF Truthy(isPluginEnabled(s, collection.id, entry))
            THEN LET r == registerPlugin(s, entry, orc, cs)
                 IN IF r.err # "none"
                    THEN r
                    ELSE LoadEntries(r.st, collection, i + 1, orc, r.calls)
            ELSE LoadEntries(s, collection, i + 1, orc, cs)

\* loadCollection without the duplicate test of lines 291-293
loadCollection_NoDuplicateTest(s, collection, orc) ==
    LET s1 == [s EXCEPT
                 !.collections = MapSet(@, collection),
                 !.enabledOverrides = SetsSet(@, collection.id, {}),
                 !.disabledOverrides = SetsSet(@, collection.id, {})]
    IN LoadEntries(s1, collection, 1, orc, << >>)

\* loadCollection undoing the registrations of the load when one of them fails
loadCollection_Rollback(s, collection, orc) ==
    IF MapHas(s.collections, collection.id)
    THEN Throw(s, "DuplicateCollection", << >>)
    ELSE LET s1 == [s EXCEPT
                      !.collections = MapSet(@, collection),
                      !.enabledOverrides = SetsSet(@, collection.id, {}),
                      !.disabledOverrides = SetsSet(@, collection.id, {})]
             r == LoadEntries(s1, collection, 1, orc, << >>)
         IN IF r.err # "none"
            THEN Throw([r.st EXCEPT !.registered = s.registered], r.err, r.calls)
            ELSE r

\* loadCollection forgetting the collection when one of its registrations fails
loadCollection_ForgetOnFailure(s, collection, orc) ==
    IF MapHas(s.collections, collection.id)
    THEN Throw(s, "DuplicateCollection", << >>)
    ELSE LET s1 == [s EXCEPT
                      !.collections = MapSet(@, collection),
                      !.enabledOverrides = SetsSet(@, collection.id, {}),
                      !.disabledOverrides = SetsSet(@, collection.id, {})]
             r == LoadEntries(s1, collection, 1, orc, << >>)
         IN IF r.err # "none"
            THEN Throw([r.st EXCEPT
                          !.collections = MapDelete(@, collection.id),
                          !.enabledOverrides = SetsDelete(@, collection.id),
                          !.disabledOverrides = SetsDelete(@, collection.id)],
                       r.err, r.calls)
            ELSE r

RECURSIVE LoadEntriesBackwards(_, _, _, _, _)
\* the loop of lines 300-304 run from the last entry to the first
LoadEntriesBackwards(s, collection, i, orc, cs) ==
    IF i < 1
    THEN Return(s, Undefined, cs)
    ELSE LET entry == collection.plugins[i]
         IN IF Truthy(isPluginEnabled(s, collection.id, entry))
            THEN LET r == registerPlugin(s, entry, orc, cs)
                 IN IF r.err # "none"
                    THEN r
                    ELSE LoadEntriesBackwards(r.st, collection, i - 1, orc, r.calls)
            ELSE LoadEntriesBackwards(s, collection, i - 1, orc, cs)

\* loadCollection registering the entries last to first
loadCollection_ReverseOrder(s, collection, orc) ==
    IF MapHas(s.collections, collection.id)
    THEN Throw(s, "DuplicateCollection", << >>)
    ELSE LET s1 == [s EXCEPT
                      !.collections = MapSet(@, collection),
                      !.enabledOverrides = SetsSet(@, collection.id, {}),
                      !.disabledOverrides = SetsSet(@, collection.id, {})]
         IN LoadEntriesBackwards(s1, collection, Len(collection.plugins), orc, << >>)

loadCollection(s, collection, orc) ==
    IF MapHas(s.collections, collection.id)
    THEN Throw(s, "DuplicateCollection", << >>)
    ELSE LET s1 == [s EXCEPT
                      !.collections = MapSet(@, collection),
                      !.enabledOverrides = SetsSet(@, collection.id, {}),
                      !.disabledOverrides = SetsSet(@, collection.id, {})]
         IN LoadEntries(s1, collection, 1, orc, << >>)

RECURSIVE UnloadEntries(_, _, _, _, _)
\* the loop of lines 317-328, from entry i on
UnloadEntries(s, collection, i, orc, cs) ==
    IF i > Len(collection.plugins)
    THEN Return(s, Undefined, cs)
    ELSE LET plugin == resolvePlugin(collection.plugins[i].plugin)
             name == plugin.name
         IN IF Truthy(RegistryGetPlugin(s.registered, name))
            THEN LET r == RegistryUnregister(s.registered, name, orc)
                 IN UnloadEntries([s EXCEPT !.registered = r.reg], collection,
                                  i + 1, orc, Append(cs, UnregisterCall(name, r.ok)))
            ELSE UnloadEntries(s, collection, i + 1, orc, cs)

\* unloadCollection deleting the stored settings of the collection's plugins too
unloadCollection_DropSettings(s, collectionId, orc) ==
    LET collection == MapGet(s.collections, collectionId)
    IN IF ~Truthy(collection)
       THEN Throw(s, "CollectionNotFound", << >>)
       ELSE LET r == UnloadEntries(s, collection, 1, orc, << >>)
                names == { resolvePlugin(collection.plugins[i].plugin).name :
                             i \in 1..Len(collection.plugins) }
            IN Return([r.st EXCEPT
                         !.collections = MapDelete(@, collectionId),
                         !.enabledOverrides = SetsDelete(@, collectionId),
                         !.disabledOverrides = SetsDelete(@, collectionId),
                         !.pluginSettings = [k \in DOMAIN @ \ names |-> @[k]]],
                      Undefined, r.calls)

\* unloadCollection giving up, with the collection kept, when an unregister fails
unloadCollection_PropagateFailure(s, collectionId, orc) ==
    LET collection == MapGet(s.collections, collectionId)
    IN IF ~Truthy(collection)
       THEN Throw(s, "CollectionNotFound", << >>)
       ELSE LET r == UnloadEntries(s, collection, 1, orc, << >>)
            IN IF \E k \in 1..Len(r.calls) : ~r.calls[k].ok
               THEN Throw(r.st, "DependencyConflict", r.calls)
               ELSE Return([r.st EXCEPT
                              !.collections = MapDelete(@, collectionId),
                              !.enabledOverrides = SetsDelete(@, collectionId),
                              !.disabledOverrides = SetsDelete(@, collectionId)],
                           Undefined, r.calls)

unloadCollection(s, collectionId, orc) ==
    LET collection == MapGet(s.collections, collectionId)
    IN IF ~Truthy(collection)
       THEN Throw(s, "CollectionNotFound", << >>)
       ELSE LET r == UnloadEntries(s, collection, 1, orc, << >>)
            IN Return([r.st EXCEPT
                         !.collections = MapDelete(@, collectionId),
                         !.enabledOverrides = SetsDelete(@, collectionId),
                         !.disabledOverrides = SetsDelete(@, collectionId)],
                      Undefined, r.calls)

getCollection(s, id) == MapGet(s.collections, id)

-----------------------------------------------------------------------------
(* Plugin activation (lines 356-432) *)

\* enablePlugin with the override sets changed before the collection is looked up
enablePlugin_MutateBeforeLookup(s, collectionId, pluginName, orc, cs) ==
    LET s1 == [s EXCEPT
                 !.disabledOverrides = SetsRemove(@, collectionId, pluginName),
                 !.enabledOverrides = SetsAdd(@, collectionId, pluginName)]
        collection == MapGet(s.collections, collectionId)
    IN IF ~Truthy(collection)
       THEN Throw(s1, "CollectionNotFound", cs)
       ELSE LET entry == findPluginEntry(collection, pluginName)
            IN IF ~Truthy(entry)
               THEN Throw(s1, "PluginNotFound", cs)
               ELSE LET plugin == resolvePlugin(PropPlugin(entry))
                    IN IF plugin.t = "undefined"
                       THEN Throw(s1, "TypeError", cs)
                       ELSE IF ~Truthy(RegistryGetPlugin(s1.registered, plugin.name))
                            THEN registerPlugin(s1, entry, orc, cs)
                            ELSE Return(s1, Undefined, cs)

enablePlugin(s, collectionId, pluginName, orc, cs) ==
    LET collection == MapGet(s.collections, collectionId)
    IN IF ~Truthy(collection)
       THEN Throw(s, "CollectionNotFound", cs)
       ELSE LET entry == findPluginEntry(collection, pluginName)   \* not awaited
            IN IF ~Truthy(entry)
               THEN Throw(s, "PluginNotFound", cs)
               ELSE LET s1 == [s EXCEPT
                                 !.disabledOverrides = SetsRemove(@, collectionId, pluginName),
                                 !.enabledOverrides = SetsAdd(@, collectionId, pluginName)]
                        plugin == resolvePlugin(PropPlugin(entry))
                    IN IF plugin.t = "undefined"
                       THEN Throw(s1, "TypeError", cs)     \* plugin.metadata
                       ELSE IF ~Truthy(RegistryGetPlugin(s1.registered, plugin.name))
                            THEN registerPlugin(s1, entry, orc, cs)
                            ELSE Return(s1, Undefined, cs)

disablePlugin(s, collectionId, pluginName, orc, cs) ==
    LET collection == MapGet(s.collections, collectionId)
    IN IF ~Truthy(collection)
       THEN Throw(s, "CollectionNotFound", cs)
       ELSE LET entry == findPluginEntry(collection, pluginName)   \* not awaited
            IN IF ~Truthy(entry)
               THEN Throw(s, "PluginNotFound", cs)
               ELSE LET s1 == [s EXCEPT
                                 !.enabledOverrides = SetsRemove(@, collectionId, pluginName),
                                 !.disabledOverrides = SetsAdd(@, collectionId, pluginName)]
                        plugin == resolvePlugin(PropPlugin(entry))
                    IN IF plugin.t = "undefined"
                       THEN Throw(s1, "TypeError", cs)     \* plugin.metadata
                       ELSE IF Truthy(RegistryGetPlugin(s1.registered, plugin.name))
                            THEN LET r == RegistryUnregister(s1.registered, plugin.name, orc)
                                     cs2 == Append(cs, UnregisterCall(plugin.name, r.ok))
                                 IN IF r.ok
                                    THEN Return([s1 EXCEPT !.registered = r.reg],
                                                Undefined, cs2)
                                    ELSE Throw(s1, "DependencyConflict", cs2)
                            ELSE Return(s1, Undefined, cs)

\* the value the method returns (declared boolean)
isEnabled(s, collectionId, pluginName) ==
    LET collection == MapGet(s.collections, collectionId)
    IN IF ~Truthy(collection)
       THEN JsBool(FALSE)
       ELSE LET entry == findPluginEntry(collection, pluginName)   \* not awaited
            IN IF ~Truthy(entry)
               THEN JsBool(FALSE)
               ELSE isPluginEnabled(s, collectionId, entry)        \* not awaited

togglePlugin(s, collectionId, pluginName, orc) ==
    IF Truthy(isEnabled(s, collectionId, pluginName))
    THEN LET r == disablePlugin(s, collectionId, pluginName, orc,
                                << MethodCall("disablePlugin", collectionId, pluginName) >>)
         IN IF r.err # "none" THEN r ELSE Return(r.st, JsBool(FALSE), r.calls)
    ELSE LET r == enablePlugin(s, collectionId, pluginName, orc,
                               << MethodCall("enablePlugin", collectionId, pluginName) >>)
         IN IF r.err # "none" THEN r ELSE Return(r.st, JsBool(TRUE), r.calls)

-----------------------------------------------------------------------------
(* Bulk operations (lines 441-509) *)

Reverse(seq) == [i \in 1..Len(seq) |-> seq[Len(seq) + 1 - i]]

RECURSIVE EnableEntries(_, _, _, _, _, _)
\* the loop of lines 447-450 over entries, from entry i on
EnableEntries(s, collectionId, entries, i, orc, cs) ==
    IF i > Len(entries)
    THEN Return(s, Undefined, cs)
    ELSE LET plugin == resolvePlugin(entries[i].plugin)
             r == enablePlugin(s, collectionId, plugin.name, orc,
                               Append(cs, MethodCall("enablePlugin", collectionId,
                                                     plugin.name)))
         IN IF r.err # "none"
            THEN r
            ELSE EnableEntries(r.st, collectionId, entries, i + 1, orc, r.calls)

RECURSIVE EnableEntries_Swallow(_, _, _, _, _, _)
\* the loop of enableAll with each enablePlugin call in a try with an empty catch
EnableEntries_Swallow(s, collectionId, entries, i, orc, cs) ==
    IF i > Len(entries)
    THEN Return(s, Undefined, cs)
    ELSE LET plugin == resolvePlugin(entries[i].plugin)
             r == enablePlugin(s, collectionId, plugin.name, orc,
                               Append(cs, MethodCall("enablePlugin", collectionId,
                                                     plugin.name)))
         IN EnableEntries_Swallow(r.st, collectionId, entries, i + 1, orc, r.calls)

\* enableAll going on after a failing entry and reporting the failure at the end
enableAll_ContinuePastFailure(s, collectionId, orc) ==
    LET collection == MapGet(s.collections, collectionId)
    IN IF ~Truthy(collection)
       THEN Throw(s, "CollectionNotFound", << >>)
       ELSE LET r == EnableEntries_Swallow(s, collectionId, collection.plugins, 1,
                                           orc, << >>)
                first == EnableEntries(s, collectionId, collection.plugins, 1, orc,
                                       << >>)
            IN IF first.err # "none" THEN Throw(r.st, first.err, r.calls) ELSE r

enableAll(s, collectionId, orc) ==
    LET collection == MapGet(s.collections, collectionId)
    IN IF ~Truthy(collection)
       THEN Throw(s, "CollectionNotFound", << >>)
       ELSE EnableEntries(s, collectionId, collection.plugins, 1, orc, << >>)

RECURSIVE DisableAllEntries(_, _, _, _, _, _)
\* the loop of lines 464-471 over the reversed entries, from entry i on
DisableAllEntries(s, collectionId, entries, i, orc, cs) ==
    IF i > Len(entries)
    THEN Return(s, Undefined, cs)
    ELSE LET plugin == resolvePlugin(entries[i].plugin)
             r == disablePlugin(s, collectionId, plugin.name, orc,
                                Append(cs, MethodCall("disablePlugin", collectionId,
                                                      plugin.name)))
         IN DisableAllEntries(r.st, collectionId, entries, i + 1, orc,
                              r.calls)                     \* catch { }

\* disableAll going through the entries as they are declared
disableAll_DeclaredOrder(s, collectionId, orc) ==
    LET collection == MapGet(s.collections, collectionId)
    IN IF ~Truthy(collection)
       THEN Throw(s, "CollectionNotFound", << >>)
       ELSE DisableAllEntries(s, collectionId, collection.plugins, 1, orc, << >>)

disableAll(s, collectionId, orc) ==
    LET collection == MapGet(s.collections, collectionId)
    IN IF ~Truthy(collection)
       THEN Throw(s, "CollectionNotFound", << >>)
       ELSE DisableAllEntries(s, collectionId, Reverse(collection.plugins), 1,
                              orc, << >>)

RECURSIVE EnableCategoryEntries(_, _, _, _, _, _, _)
\* the inner loop of lines 479-488, from entry i on
EnableCategoryEntries(s, collectionId, entries, category, i, orc, cs) ==
    IF i > Len(entries)
    THEN Return(s, Undefined, cs)
    ELSE IF entries[i].category = category
         THEN LET plugin == resolvePlugin(entries[i].plugin)
                  r == enablePlugin(s, collectionId, plugin.name, orc,
                                    Append(cs, MethodCall("enablePlugin", collectionId,
                                                          plugin.name)))
              IN EnableCategoryEntries(r.st, collectionId, entries, category, i + 1,
                                       orc, r.calls)       \* catch { }
         ELSE EnableCategoryEntries(s, collectionId, entries, category, i + 1, orc, cs)

RECURSIVE EnableCategoryFrom(_, _, _, _, _)
\* the outer loop of line 478, from the ci-th loaded collection on
EnableCategoryFrom(s, category, ci, orc, cs) ==
    IF ci > Len(s.collections)
    THEN Return(s, Undefined, cs)
    ELSE LET collection == s.collections[ci]
             r == EnableCategoryEntries(s, collection.id, collection.plugins,
                                        category, 1, orc, cs)
         IN EnableCategoryFrom(r.st, category, ci + 1, orc, r.calls)

enableCategory(s, category, orc) == EnableCategoryFrom(s, category, 1, orc, << >>)

RECURSIVE DisableCategoryEntries(_, _, _, _, _, _, _)
\* the inner loop of lines 498-507 over the reversed entries, from entry i on
DisableCategoryEntries(s, collectionId, entries, category, i, orc, cs) ==
    IF i > Len(entries)
    THEN Return(s, Undefined, cs)
    ELSE IF entries[i].category = category
         THEN LET plugin == resolvePlugin(entries[i].plugin)
                  r == disablePlugin(s, collectionId, plugin.name, orc,
                                     Append(cs, MethodCall("disablePlugin", collectionId,
                                                           plugin.name)))
              IN DisableCategoryEntries(r.st, collectionId, entries, category, i + 1,
                                        orc, r.calls)      \* catch { }
         ELSE DisableCategoryEntries(s, collectionId, entries, category, i + 1, orc,
                                     cs)

RECURSIVE DisableCategoryFrom(_, _, _, _, _)
\* the outer loop of line 496, from the ci-th loaded collection on
DisableCategoryFrom(s, category, ci, orc, cs) ==
    IF ci > Len(s.collections)
    THEN Return(s, Undefined, cs)
    ELSE LET collection == s.collections[ci]
             r == DisableCategoryEntries(s, collection.id,
                                         Reverse(collection.plugins), category, 1,
                                         orc, cs)
         IN DisableCategoryFrom(r.st, category, ci + 1, orc, r.calls)

disableCategory(s, category, orc) == DisableCategoryFrom(s, category, 1, orc, << >>)

-----------------------------------------------------------------------------
(* Filtering and search (lines 518-633) *)

RECURSIVE VisitedFrom(_, _)
\* the entries the nested loops over this.collections and collection.plugins
\* visit, in order, from the ci-th loaded collection on
VisitedFrom(s, ci) ==
    IF ci > Len(s.collections)
    THEN << >>
    ELSE [j \in 1..Len(s.collections[ci].plugins) |->
             [collectionId |-> s.collections[ci].id,
              entry        |-> s.collections[ci].plugins[j]]]
         \o VisitedFrom(s, ci + 1)

\* entry.tags?.includes(tag)
TagsInclude(tags, tag) ==
    IF tags.t = "undefined"
    THEN FALSE
    ELSE \E k \in 1..Len(tags.items) : tags.items[k] = tag

\* results.push({ collectionId, entry, enabled: this.isPluginEnabled(...) })
FilterResult(s, v) ==
    [collectionId |-> v.collectionId,
     entry        |-> v.entry,
     enabled      |-> isPluginEnabled(s, v.collectionId, v.entry)]   \* not awaited

getPluginsByCategory(s, category) ==
    LET hits == SelectSeq(VisitedFrom(s, 1), LAMBDA v : v.entry.category = category)
    IN [k \in 1..Len(hits) |-> FilterResult(s, hits[k])]

getPluginsByTag(s, tag) ==
    LET hits == SelectSeq(VisitedFrom(s, 1), LAMBDA v : TagsInclude(v.entry.tags, tag))
    IN [k \in 1..Len(hits) |-> FilterResult(s, hits[k])]

\* the UTF-16 code units of the strings of the fixture and of the queries
Chars(text) ==
    CASE text = ""            -> << >>
      [] text = "logger"      -> << "l", "o", "g", "g", "e", "r" >>
      [] text = "tracer"      -> << "t", "r", "a", "c", "e", "r" >>
      [] text = "trace sink"  -> << "t", "r", "a", "c", "e", " ", "s", "i", "n", "k" >>
      [] text = "LOG shipper" -> << "L", "O", "G", " ", "s", "h", "i", "p", "p", "e", "r" >>
      [] text = "spans"       -> << "s", "p", "a", "n", "s" >>
      [] text = "io"          -> << "i", "o" >>
      [] text = "Log"         -> << "L", "o", "g" >>
      [] text = "utility"     -> << "u", "t", "i", "l", "i", "t", "y" >>
      [] text = "provider"    -> << "p", "r", "o", "v", "i", "d", "e", "r" >>
      [] text = "LOG"         -> << "L", "O", "G" >>
      [] text = "Trace"       -> << "T", "r", "a", "c", "e" >>
      [] text = "er"          -> << "e", "r" >>
      [] text = "IO"          -> << "I", "O" >>
      [] text = "Provider"    -> << "P", "r", "o", "v", "i", "d", "e", "r" >>
      [] text = "LOGGER"      -> << "L", "O", "G", "G", "E", "R" >>
      [] text = "zz"          -> << "z", "z" >>

\* the lower-case mapping of one code unit
LowerChar(ch) ==
    CASE ch = "E" -> "e"
      [] ch = "G" -> "g"
      [] ch = "I" -> "i"
      [] ch = "L" -> "l"
      [] ch = "O" -> "o"
      [] ch = "P" -> "p"
      [] ch = "R" -> "r"
      [] ch = "T" -> "t"
      [] OTHER    -> ch

\* String.prototype.toLowerCase, on code units
toLowerCase(chars) == [k \in 1..Len(chars) |-> LowerChar(chars[k])]

\* String.prototype.includes, on code units
includes(hay, needle) ==
    \E k \in 0..(Len(hay) - Len(needle)) : SubSeq(hay, k + 1, k + Len(needle)) = needle

\* entry.description ?? plugin.metadata.description ?? ''
DescriptionOf(entry) ==
    IF entry.description.t # "undefined"
    THEN entry.description.text
    ELSE IF MetadataDescription(resolvePlugin(entry.plugin).name).t # "undefined"
         THEN MetadataDescription(resolvePlugin(entry.plugin).name).text
         ELSE ""

\* entry.tags?.some(t => t.toLowerCase().includes(queryLower))
SomeTagIncludes(tags, queryLower) ==
    IF tags.t = "undefined"
    THEN FALSE
    ELSE \E k \in 1..Len(tags.items) :
             includes(toLowerCase(Chars(tags.items[k])), queryLower)

\* the scoring of searchPlugins without the lower-casing
ScoreOf_CaseSensitive(entry, query) ==
    LET name        == Chars(resolvePlugin(entry.plugin).name)
        description == Chars(DescriptionOf(entry))
        q           == Chars(query)
    IN (IF name = q THEN 100 ELSE IF includes(name, q) THEN 50 ELSE 0)
       + (IF includes(description, q) THEN 25 ELSE 0)
       + (IF entry.tags.t # "undefined"
             /\ \E k \in 1..Len(entry.tags.items) : includes(Chars(entry.tags.items[k]), q)
          THEN 30 ELSE 0)
       + (IF includes(Chars(entry.category), q) THEN 20 ELSE 0)

\* the score the loop body of searchPlugins computes for one entry
ScoreOf(entry, query) ==
    LET queryLower  == toLowerCase(Chars(query))
        name        == toLowerCase(Chars(resolvePlugin(entry.plugin).name))
        description == toLowerCase(Chars(DescriptionOf(entry)))
    IN (IF name = queryLower THEN 100
        ELSE IF includes(name, queryLower) THEN 50 ELSE 0)
       + (IF includes(description, queryLower) THEN 25 ELSE 0)
       + (IF SomeTagIncludes(entry.tags, queryLower) THEN 30 ELSE 0)
       + (IF includes(toLowerCase(Chars(entry.category)), queryLower) THEN 20 ELSE 0)

\* results.push({ collectionId, entry, pluginName, enabled, score })
SearchResult(s, v, query) ==
    [collectionId |-> v.collectionId,
     entry        |-> v.entry,
     pluginName   |-> resolvePlugin(v.entry.plugin).name,
     enabled      |-> isPluginEnabled(s, v.collectionId, v.entry),   \* not awaited
     score        |-> ScoreOf(v.entry, query)]

\* the results array before it is sorted
SearchHits(s, query) ==
    LET hits == SelectSeq(VisitedFrom(s, 1), LAMBDA v : ScoreOf(v.entry, query) > 0)
    IN [k \in 1..Len(hits) |-> SearchResult(s, hits[k], query)]

RECURSIVE SortByScore(_)
\* results.sort((a, b) => b.score - a.score): Array.prototype.sort is stable
SortByScore(results) ==
    IF results = << >>
    THEN << >>
    ELSE LET top  == CHOOSE k \in 1..Len(results) :
                         /\ \A j \in 1..Len(results) : results[j].score <= results[k].score
                         /\ \A j \in 1..(k - 1) : results[j].score < results[k].score
             rest == [j \in 1..(Len(results) - 1) |->
                         IF j < top THEN results[j] ELSE results[j + 1]]
         IN << results[top] >> \o SortByScore(rest)

\* searchPlugins that returns the results as they were found
searchPlugins_Unsorted(s, query) == SearchHits(s, query)

\* the array the awaited searchPlugins(query) gives
searchPlugins(s, query) == SortByScore(SearchHits(s, query))

-----------------------------------------------------------------------------
(* Settings (lines 642-659) *)

getPluginSettings(s, pluginName) == SettingsOf(s.pluginSettings, pluginName)

\* this.pluginSettings.set(name, settings)
SettingsSet(settingsMap, name, settings) ==
    [k \in DOMAIN settingsMap \cup {name} |->
        IF k = name THEN settings ELSE settingsMap[k]]

\* setPluginSettings registering the plugin again when the registry holds it
setPluginSettings_Reconfigure(s, pluginName, settings) ==
    LET s1 == [s EXCEPT !.pluginSettings = SettingsSet(@, pluginName, settings)]
    IN IF Truthy(RegistryGetPlugin(s.registered, pluginName))
       THEN Return(s1, Undefined, << RegisterCall(pluginName, TRUE, settings) >>)
       ELSE Return(s1, Undefined, << >>)

setPluginSettings(s, pluginName, settings) ==
    Return([s EXCEPT !.pluginSettings = SettingsSet(@, pluginName, settings)],
           Undefined, << >>)

\* updatePluginSettings dropping the existing payload, as set does
updatePluginSettings_Replace(s, pluginName, settings) ==
    Return([s EXCEPT !.pluginSettings = SettingsSet(@, pluginName, settings)],
           Undefined, << >>)

updatePluginSettings(s, pluginName, settings) ==
    LET existing == SettingsOf(s.pluginSettings, pluginName)
    IN Return([s EXCEPT
                 !.pluginSettings = SettingsSet(@, pluginName, Spread(existing, settings))],
              Undefined, << >>)

-----------------------------------------------------------------------------
(* State persistence (lines 668-716) *)

RECURSIVE ArrayFrom(_)
\* Array.from(set): the members, each once, in the set's iteration order
\* (the model keeps no insertion order: some fixed order)
ArrayFrom(set) ==
    IF set = {}
    THEN << >>
    ELSE LET x == CHOOSE x \in set : TRUE
         IN << x >> \o ArrayFrom(set \ {x})

\* new Set(array)
NewSet(array) == { array[i] : i \in 1..Len(array) }

\* the object the loops of lines 672-682 build: a key for each non-empty set
NonEmptyArrays(m) ==
    [k \in { id \in DOMAIN m : Cardinality(m[id]) > 0 } |-> ArrayFrom(m[k])]

\* exportState without the size tests of lines 673 and 679
exportState_KeepEmpty(s) ==
    [version         |-> "1.0.0",
     collections     |-> [i \in 1..Len(s.collections) |-> s.collections[i].id],
     enabledPlugins  |-> [k \in DOMAIN s.enabledOverrides |->
                            ArrayFrom(s.enabledOverrides[k])],
     disabledPlugins |-> [k \in DOMAIN s.disabledOverrides |->
                            ArrayFrom(s.disabledOverrides[k])],
     pluginSettings  |-> s.pluginSettings]

exportState(s) ==
    [version         |-> "1.0.0",
     collections     |-> [i \in 1..Len(s.collections) |-> s.collections[i].id],
     enabledPlugins  |-> NonEmptyArrays(s.enabledOverrides),
     disabledPlugins |-> NonEmptyArrays(s.disabledOverrides),
     pluginSettings  |-> s.pluginSettings]

\* the loops of lines 703-705 and 708-710: set(id, new Set(plugins)) per key
RestoreSets(m, obj) ==
    [k \in DOMAIN m \cup DOMAIN obj |->
        IF k \in DOMAIN obj THEN NewSet(obj[k]) ELSE m[k]]

\* the loop of lines 713-715
RestoreSettings(settingsMap, obj) ==
    [k \in DOMAIN settingsMap \cup DOMAIN obj |->
        IF k \in DOMAIN obj THEN obj[k] ELSE settingsMap[k]]

\* importState replacing the three maps by those of the snapshot
importState_Reset(s, state) ==
    Return([s EXCEPT
              !.enabledOverrides = RestoreSets(EmptyMap, state.enabledPlugins),
              !.disabledOverrides = RestoreSets(EmptyMap, state.disabledPlugins),
              !.pluginSettings = state.pluginSettings],
           Undefined, << >>)

importState(s, state) ==
    Return([s EXCEPT
              !.enabledOverrides = RestoreSets(@, state.enabledPlugins),
              !.disabledOverrides = RestoreSets(@, state.disabledPlugins),
              !.pluginSettings = RestoreSettings(@, state.pluginSettings)],
           Undefined, << >>)

-----------------------------------------------------------------------------
(* Statistics (lines 744-781) *)

\* the closed enumeration PluginCategory
PluginCategories ==
    {"agent", "task", "tool", "memory", "provider", "hook", "worker", "integration",
     "utility"}

\* the object the awaited getStats() gives
getStats(s) ==
    LET places == UNION { { << i, j >> : j \in 1..Len(s.collections[i].plugins) } :
                            i \in 1..Len(s.collections) }
        counted == { p \in places :
                       Truthy(isPluginEnabled(s, s.collections[p[1]].id,
                                              s.collections[p[1]].plugins[p[2]])) }
    IN [totalCollections |-> Len(s.collections),
        totalPlugins     |-> Cardinality(places),
        enabledPlugins   |-> Cardinality(counted),                 \* not awaited
        disabledPlugins  |-> Cardinality(places \ counted),
        byCategory       |->
            [cat \in PluginCategories |->
                Cardinality({ p \in places :
                                s.collections[p[1]].plugins[p[2]].category = cat })]]

-----------------------------------------------------------------------------
(* Inputs of the calls *)

ArgCategories == {"utility", "provider"}

\* names of the entries of the loaded collection id (none when not loaded)
NamesIn(m, id) ==
    IF MapHas(m, id)
    THEN { resolvePlugin(MapGet(m, id).plugins[i].plugin).name :
             i \in 1..Len(MapGet(m, id).plugins) }
    ELSE {}

NamesOf(collection) ==
    { resolvePlugin(collection.plugins[i].plugin).name : i \in 1..Len(collection.plugins) }

AllNames(m) == UNION { NamesOf(m[i]) : i \in 1..Len(m) }

\* what the registry may answer to the register calls of one manager call
\* that registers only names of the set names
RegisterOracles(names) == { [failReg |-> f, failUnreg |-> {}] : f \in SUBSET names }

\* the same for its unregister calls
UnregisterOracles(names) == { [failReg |-> {}, failUnreg |-> f] : f \in SUBSET names }

\* a call that makes one registry call at most: it fails or it does not
EitherOracles(names) == { [failReg |-> f, failUnreg |-> f] : f \in SUBSET names }

EmptySettings == [k \in {} |-> EmptyPayload]

\* a manager that holds the overrides e and d for one collection id
Donor(id, e, d, settings) ==
    [collections       |-> << >>,
     enabledOverrides  |-> SetsSet(EmptyMap, id, e),
     disabledOverrides |-> SetsSet(EmptyMap, id, d),
     pluginSettings    |-> settings,
     registered        |-> {}]

\* snapshots callers pass to importState: what exportState gives for a manager
\* with overrides for one collection id, no name in both of its sets
\* collection ids the snapshots callers pass speak of
SnapshotIds == {CatalogueSeq[1].id}

SnapshotInputs ==
    { exportState(Donor(id, ed[1], ed[2], st)) :
        id \in SnapshotIds,
        ed \in { x \in (SUBSET ArgNames) \X (SUBSET ArgNames) : x[1] \cap x[2] = {} },
        st \in {EmptySettings, SettingsSet(EmptySettings, "logger", PayloadSeq[1])} }

-----------------------------------------------------------------------------
(* The state machine: one step per manager call *)

\* the slots of the calls in flight
Slots == 1..MaxInFlight

InFlight(f) == f.pc \notin {"idle", "done"}

\* the frame of a slot no call has used yet
IdleFrame ==
    [op |-> "none", id |-> "", name |-> "", category |-> "",
     collection |-> Undefined,   \* const collection (for of: the current value)
     pc |-> "idle",              \* idle, resolve, registry, nested, done
     i |-> 0,                    \* position of the loop over the entries
     ci |-> 0,                   \* entries of this.collections the iterator has passed
     sub |-> "none",             \* the await the nested enablePlugin/disablePlugin is at
     entry |-> Undefined,        \* const entry of the nested call
     ok |-> TRUE,                \* whether the awaited registry call succeeded
     err |-> "none",             \* what the call threw, once done
     calls |-> << >>,            \* its calls to the registry, in order
     visited |-> << >>,          \* the names of the entries its loops have reached
     peers |-> {},               \* the slots whose call was in flight when it started
     removed |-> FALSE]          \* its collection id was deleted from the map meanwhile

Init ==
    /\ collections = << >>
    /\ enabledOverrides = EmptyMap
    /\ disabledOverrides = EmptyMap
    /\ pluginSettings = EmptySettings
    /\ registered = {}
    /\ frames = [slot \in Slots |-> IdleFrame]

LoadCollection ==
    \E c \in Catalogue : \E orc \in RegisterOracles(NamesOf(c)) :
        LET r == loadCollection(State, c, orc)
        IN /\ collections' = r.st.collections
           /\ enabledOverrides' = r.st.enabledOverrides
           /\ disabledOverrides' = r.st.disabledOverrides
           /\ pluginSettings' = r.st.pluginSettings
           /\ registered' = r.st.registered
           /\ frames' = frames

UnloadCollection ==
    \E id \in ArgIds : \E orc \in UnregisterOracles(NamesIn(collections, id)) :
        LET r == unloadCollection(State, id, orc)
        IN /\ collections' = r.st.collections
           /\ enabledOverrides' = r.st.enabledOverrides
           /\ disabledOverrides' = r.st.disabledOverrides
           /\ pluginSettings' = r.st.pluginSettings
           /\ registered' = r.st.registered
           /\ frames' = frames

EnablePlugin ==
    \E id \in ArgIds, n \in ArgNames : \E orc \in RegisterOracles({n}) :
        LET r == enablePlugin(State, id, n, orc, << >>)
        IN /\ collections' = r.st.collections
           /\ enabledOverrides' = r.st.enabledOverrides
           /\ disabledOverrides' = r.st.disabledOverrides
           /\ pluginSettings' = r.st.pluginSettings
           /\ registered' = r.st.registered
           /\ frames' = frames

DisablePlugin ==
    \E id \in ArgIds, n \in ArgNames : \E orc \in UnregisterOracles({n}) :
        LET r == disablePlugin(State, id, n, orc, << >>)
        IN /\ collections' = r.st.collections
           /\ enabledOverrides' = r.st.enabledOverrides
           /\ disabledOverrides' = r.st.disabledOverrides
           /\ pluginSettings' = r.st.pluginSettings
           /\ registered' = r.st.registered
           /\ frames' = frames

TogglePlugin ==
    \E id \in ArgIds, n \in ArgNames : \E orc \in EitherOracles({n}) :
        LET r == togglePlugin(State, id, n, orc)
        IN /\ collections' = r.st.collections
           /\ enabledOverrides' = r.st.enabledOverrides
           /\ disabledOverrides' = r.st.disabledOverrides
           /\ pluginSettings' = r.st.pluginSettings
           /\ registered' = r.st.registered
           /\ frames' = frames

EnableAll ==
    \E id \in ArgIds : \E orc \in RegisterOracles(NamesIn(collections, id)) :
        LET r == enableAll(State, id, orc)
        IN /\ collections' = r.st.collections
           /\ enabledOverrides' = r.st.enabledOverrides
           /\ disabledOverrides' = r.st.disabledOverrides
           /\ pluginSettings' = r.st.pluginSettings
           /\ registered' = r.st.registered
           /\ frames' = frames

DisableAll ==
    \E id \in ArgIds : \E orc \in UnregisterOracles(NamesIn(collections, id)) :
        LET r == disableAll(State, id, orc)
        IN /\ collections' = r.st.collections
           /\ enabledOverrides' = r.st.enabledOverrides
           /\ disabledOverrides' = r.st.disabledOverrides
           /\ pluginSettings' = r.st.pluginSettings
           /\ registered' = r.st.registered
           /\ frames' = frames

EnableCategory ==
    \E cat \in ArgCategories : \E orc \in RegisterOracles(AllNames(collections)) :
        LET r == enableCategory(State, cat, orc)
        IN /\ collections' = r.st.collections
           /\ enabledOverrides' = r.st.enabledOverrides
           /\ disabledOverrides' = r.st.disabledOverrides
           /\ pluginSettings' = r.st.pluginSettings
           /\ registered' = r.st.registered
           /\ frames' = frames

DisableCategory ==
    \E cat \in ArgCategories : \E orc \in UnregisterOracles(AllNames(collections)) :
        LET r == disableCategory(State, cat, orc)
        IN /\ collections' = r.st.collections
           /\ enabledOverrides' = r.st.enabledOverrides
           /\ disabledOverrides' = r.st.disabledOverrides
           /\ pluginSettings' = r.st.pluginSettings
           /\ registered' = r.st.registered
           /\ frames' = frames

SetPluginSettings ==
    \E n \in SettingNames, p \in Payloads :
        LET r == setPluginSettings(State, n, p)
        IN /\ collections' = r.st.collections
           /\ enabledOverrides' = r.st.enabledOverrides
           /\ disabledOverrides' = r.st.disabledOverrides
           /\ pluginSettings' = r.st.pluginSettings
           /\ registered' = r.st.registered
           /\ frames' = frames

UpdatePluginSettings ==
    \E n \in SettingNames, p \in Payloads :
        LET r == updatePluginSettings(State, n, p)
        IN /\ collections' = r.st.collections
           /\ enabledOverrides' = r.st.enabledOverrides
           /\ disabledOverrides' = r.st.disabledOverrides
           /\ pluginSettings' = r.st.pluginSettings
           /\ registered' = r.st.registered
           /\ frames' = frames

ImportState ==
    \E snap \in SnapshotInputs :
        LET r == importState(State, snap)
        IN /\ collections' = r.st.collections
           /\ enabledOverrides' = r.st.enabledOverrides
           /\ disabledOverrides' = r.st.disabledOverrides
           /\ pluginSettings' = r.st.pluginSettings
           /\ registered' = r.st.registered
           /\ frames' = frames

Next ==
    \/ LoadCollection
    \/ UnloadCollection
    \/ EnablePlugin
    \/ DisablePlugin
    \/ TogglePlugin
    \/ EnableAll
    \/ DisableAll
    \/ EnableCategory
    \/ DisableCategory
    \/ SetPluginSettings
    \/ UpdatePluginSettings
    \/ ImportState

Spec == Init /\ [][Next]_vars

-----------------------------------------------------------------------------
(* Calls in flight. An async method runs without interruption to its next  *)
(* await and resumes when the awaited promise has settled; between the two *)
(* any other call may start or resume. A frame is one call of a method:    *)
(* its arguments, its local constants and the await it is suspended at.    *)
(* Consecutive awaits with no access to the manager's state between them   *)
(* are one suspension.                                                     *)

\* the frame of a call that starts in a slot
NewFrame(fs, slot, op, id, name, category, collection) ==
    [IdleFrame EXCEPT !.op = op, !.id = id, !.name = name, !.category = category,
                      !.collection = collection,
                      !.peers = { t \in Slots \ {slot} : InFlight(fs[t]) }]

\* a state of the manager together with the frame of the call that ran
K(s, f) == [st |-> s, fr |-> f]

\* the call returns (err "none") or throws: its locals are gone
Settle(f, err) ==
    [f EXCEPT !.pc = "done", !.err = err, !.collection = Undefined, !.i = 0, !.ci = 0,
              !.sub = "none", !.entry = Undefined, !.ok = TRUE]

\* what the registry answers to the one call a step makes
Answer(name, ok) ==
    [failReg |-> IF ok THEN {} ELSE {name}, failUnreg |-> IF ok THEN {} ELSE {name}]

Enabling(f) == f.op \in {"enablePlugin", "enableAll", "enableCategory"}

Backwards(f) == f.op \in {"disableAll", "disableCategory"}

ByCategory(f) == f.op \in {"enableCategory", "disableCategory"}

\* the entries the loop of a frame walks, in its order
Walked(f, collection) ==
    IF Backwards(f) THEN Reverse(collection.plugins) ELSE collection.plugins

\* plugin.metadata.name of the entry the loop is at
CurrentName(f) == resolvePlugin(Walked(f, f.collection)[f.i].plugin).name

RECURSIVE LoadLoop(_, _, _)
\* loadCollection: the loop of lines 300-304 from entry i to the await of line 824
LoadLoop(s, f, i) ==
    IF i > Len(f.collection.plugins)
    THEN K(s, Settle(f, "none"))
    ELSE LET entry == f.collection.plugins[i]
             g == [f EXCEPT !.i = i,
                            !.visited = Append(@, resolvePlugin(entry.plugin).name)]
         IN IF Truthy(isPluginEnabled(s, f.collection.id, entry))   \* not awaited
            THEN K(s, [g EXCEPT !.pc = "resolve"])
            ELSE LoadLoop(s, g, i + 1)

\* loadCollection that suspends between the duplicate test and the insertion
LoadBegin_InsertLater(s, f) ==
    IF MapHas(s.collections, f.collection.id)
    THEN K(s, Settle(f, "DuplicateCollection"))
    ELSE LoadLoop(s, f, 1)

\* loadCollection from its first line to its first await (lines 291-302, 824)
LoadBegin(s, f) ==
    IF MapHas(s.collections, f.collection.id)
    THEN K(s, Settle(f, "DuplicateCollection"))
    ELSE LoadLoop([s EXCEPT
                     !.collections = MapSet(@, f.collection),
                     !.enabledOverrides = SetsSet(@, f.collection.id, {}),
                     !.disabledOverrides = SetsSet(@, f.collection.id, {})],
                  f, 1)

\* loadCollection resumed: after the await of line 824 it calls the registry
\* (lines 825-832); after the await of line 832 it goes on or throws
LoadResume(s, f, ok) ==
    IF f.pc = "resolve"
    THEN LET r == registerPlugin(s, f.collection.plugins[f.i],
                                 Answer(CurrentName(f), ok), f.calls)
         IN K(r.st, [f EXCEPT !.pc = "registry", !.ok = (r.err = "none"),
                              !.calls = r.calls])
    ELSE IF f.ok
         THEN LoadLoop(s, f, f.i + 1)
         ELSE K(s, Settle(f, "RegistrationFailure"))

\* unloadCollection: the loop of lines 317-328 from entry i to the await of
\* line 318, and lines 330-332 after the last entry
UnloadLoop(s, f, i) ==
    IF i > Len(f.collection.plugins)
    THEN K([s EXCEPT
              !.collections = MapDelete(@, f.id),
              !.enabledOverrides = SetsDelete(@, f.id),
              !.disabledOverrides = SetsDelete(@, f.id)],
           Settle(f, "none"))
    ELSE K(s, [f EXCEPT !.pc = "resolve", !.i = i,
                        !.visited = Append(@, resolvePlugin(f.collection.plugins[i].plugin).name)])

\* unloadCollection from its first line to its first await (lines 311-318)
UnloadBegin(s, f) ==
    LET collection == MapGet(s.collections, f.id)
    IN IF ~Truthy(collection)
       THEN K(s, Settle(f, "CollectionNotFound"))
       ELSE UnloadLoop(s, [f EXCEPT !.collection = collection], 1)

\* unloadCollection resumed: after the await of line 318 it asks the registry
\* and calls unregister (lines 319-323); after the await of line 323 it goes on
UnloadResume(s, f, ok) ==
    IF f.pc = "resolve" /\ Truthy(RegistryGetPlugin(s.registered, CurrentName(f)))
    THEN LET r == RegistryUnregister(s.registered, CurrentName(f),
                                     Answer(CurrentName(f), ok))
         IN K([s EXCEPT !.registered = r.reg],
              [f EXCEPT !.pc = "registry", !.ok = r.ok,
                        !.calls = Append(@, UnregisterCall(CurrentName(f), r.ok))])
    ELSE UnloadLoop(s, f, f.i + 1)

\* the result of a step of a nested enablePlugin or disablePlugin: out is
\* "pending" while it is suspended, else what it threw ("none": it returned)
Nested(s, f, out) == [st |-> s, fr |-> f, out |-> out]

\* enablePlugin from its first line to its first await (lines 357-373)
EnableEnter(s, f, collectionId, pluginName) ==
    LET collection == MapGet(s.collections, collectionId)
    IN IF ~Truthy(collection)
       THEN Nested(s, f, "CollectionNotFound")
       ELSE LET entry == findPluginEntry(collection, pluginName)   \* not awaited
            IN IF ~Truthy(entry)
               THEN Nested(s, f, "PluginNotFound")
               ELSE Nested([s EXCEPT
                              !.disabledOverrides = SetsRemove(@, collectionId, pluginName),
                              !.enabledOverrides = SetsAdd(@, collectionId, pluginName)],
                           [f EXCEPT !.sub = "resolve", !.entry = entry],
                           "pending")

\* enablePlugin resumed: after the await of line 373 (lines 373-375), after
\* the await of line 824 (lines 825-832), after the await of line 832
EnableContinue(s, f, ok) ==
    LET plugin == resolvePlugin(PropPlugin(f.entry))
    IN CASE f.sub = "resolve" ->
              IF plugin.t = "undefined"
              THEN Nested(s, f, "TypeError")     \* plugin.metadata
              ELSE IF ~Truthy(RegistryGetPlugin(s.registered, plugin.name))
                   THEN Nested(s, [f EXCEPT !.sub = "resolve2"], "pending")
                   ELSE Nested(s, f, "none")
         [] f.sub = "resolve2" ->
              LET r == registerPlugin(s, f.entry, Answer(plugin.name, ok), f.calls)
              IN Nested(r.st,
                        [f EXCEPT !.sub = "registry", !.ok = (r.err = "none"),
                                  !.calls = r.calls],
                        "pending")
         [] OTHER ->
              Nested(s, f, IF f.ok THEN "none" ELSE "RegistrationFailure")

\* disablePlugin from its first line to its first await (lines 382-398)
DisableEnter(s, f, collectionId, pluginName) ==
    LET collection == MapGet(s.collections, collectionId)
    IN IF ~Truthy(collection)
       THEN Nested(s, f, "CollectionNotFound")
       ELSE LET entry == findPluginEntry(collection, pluginName)   \* not awaited
            IN IF ~Truthy(entry)
               THEN Nested(s, f, "PluginNotFound")
               ELSE Nested([s EXCEPT
                              !.enabledOverrides = SetsRemove(@, collectionId, pluginName),
                              !.disabledOverrides = SetsAdd(@, collectionId, pluginName)],
                           [f EXCEPT !.sub = "resolve", !.entry = entry],
                           "pending")

\* disablePlugin resumed: after the await of line 398 (lines 398-401), after
\* the await of line 401 (lines 402-405)
DisableContinue(s, f, ok) ==
    LET plugin == resolvePlugin(PropPlugin(f.entry))
    IN IF f.sub = "resolve"
       THEN IF plugin.t = "undefined"
            THEN Nested(s, f, "TypeError")     \* plugin.metadata
            ELSE IF Truthy(RegistryGetPlugin(s.registered, plugin.name))
                 THEN LET r == RegistryUnregister(s.registered, plugin.name,
                                                  Answer(plugin.name, ok))
                      IN Nested([s EXCEPT !.registered = r.reg],
                                [f EXCEPT !.sub = "registry", !.ok = r.ok,
                                          !.calls = Append(@, UnregisterCall(plugin.name, r.ok))],
                                "pending")
                 ELSE Nested(s, f, "none")
       ELSE Nested(s, f, IF f.ok THEN "none" ELSE "DependencyConflict")

\* enableAll, disableAll: the loop of lines 447-450 (464-471) from entry i
\* to the await of line 448 (465)
AllLoop(s, f, i) ==
    IF i > Len(f.collection.plugins)
    THEN K(s, Settle(f, "none"))
    ELSE K(s, [f EXCEPT !.pc = "resolve", !.i = i,
                        !.visited = Append(@, resolvePlugin(Walked(f, f.collection)[i].plugin).name)])

\* enableAll, disableAll from the first line to the first await
AllBegin(s, f) ==
    LET collection == MapGet(s.collections, f.id)
    IN IF ~Truthy(collection)
       THEN K(s, Settle(f, "CollectionNotFound"))
       ELSE AllLoop(s, [f EXCEPT !.collection = collection], 1)

RECURSIVE CategoryLoop(_, _, _, _, _)
\* enableCategory, disableCategory: the loops of lines 478-490 (495-508) from
\* entry i of the collection the iterator is at to the await of line 481
\* (499); the iterator of this.collections reads the map as it is when it
\* is advanced
CategoryLoop(s, f, ci, collection, i) ==
    IF collection.t = "undefined" \/ i > Len(collection.plugins)
    THEN IF ci >= Len(s.collections)
         THEN K(s, Settle([f EXCEPT !.ci = ci], "none"))
         ELSE CategoryLoop(s, f, ci + 1, s.collections[ci + 1], 1)
    ELSE IF Walked(f, collection)[i].category = f.category
         THEN K(s, [f EXCEPT !.pc = "resolve", !.ci = ci, !.collection = collection,
                             !.i = i,
                             !.visited = Append(@, resolvePlugin(Walked(f, collection)[i].plugin).name)])
         ELSE CategoryLoop(s, f, ci, collection, i + 1)

\* the frame of the caller once its nested call has settled
Back(f) == [f EXCEPT !.sub = "none", !.entry = Undefined, !.ok = TRUE]

\* a caller that swallows what the nested call threw and tries the same entry again
AfterNested_Retry(s, f, out) ==
    CASE f.op \in {"enablePlugin", "disablePlugin"} -> K(s, Settle(f, out))
      [] f.op = "enableAll" ->
           IF out # "none" THEN K(s, Settle(f, out)) ELSE AllLoop(s, Back(f), f.i + 1)
      [] out # "none" -> K(s, [Back(f) EXCEPT !.pc = "resolve"])
      [] f.op = "disableAll" -> AllLoop(s, Back(f), f.i + 1)
      [] OTHER -> CategoryLoop(s, Back(f), f.ci, f.collection, f.i + 1)

\* the caller of a nested enablePlugin or disablePlugin that has settled:
\* enablePlugin and disablePlugin themselves end with it, enableAll rethrows
\* (line 449), the others swallow what was thrown (lines 468, 484, 502)
AfterNested(s, f, out) ==
    CASE f.op \in {"enablePlugin", "disablePlugin"} -> K(s, Settle(f, out))
      [] f.op = "enableAll" ->
           IF out # "none" THEN K(s, Settle(f, out)) ELSE AllLoop(s, Back(f), f.i + 1)
      [] f.op = "disableAll" -> AllLoop(s, Back(f), f.i + 1)
      [] OTHER -> CategoryLoop(s, Back(f), f.ci, f.collection, f.i + 1)

\* the caller after a step of its nested call: suspended with it, or going on
Deliver(r) ==
    IF r.out = "pending"
    THEN K(r.st, [r.fr EXCEPT !.pc = "nested"])
    ELSE AfterNested(r.st, r.fr, r.out)

\* the arguments of the nested call this.enablePlugin(collectionId, name)
NestedId(f) == IF ByCategory(f) THEN f.collection.id ELSE f.id

NestedName(f) == IF f.op \in {"enablePlugin", "disablePlugin"} THEN f.name ELSE CurrentName(f)

\* a call runs from its first line to its first await
Begin(s, f) ==
    CASE f.op = "loadCollection"   -> LoadBegin(s, f)
      [] f.op = "unloadCollection" -> UnloadBegin(s, f)
      [] f.op = "enablePlugin"     -> Deliver(EnableEnter(s, f, f.id, f.name))
      [] f.op = "disablePlugin"    -> Deliver(DisableEnter(s, f, f.id, f.name))
      [] f.op \in {"enableAll", "disableAll"} -> AllBegin(s, f)
      [] OTHER -> CategoryLoop(s, f, 0, Undefined, 0)

\* a suspended call runs from the await it is at to its next await
Resume(s, f, ok) ==
    CASE f.op = "loadCollection"   -> LoadResume(s, f, ok)
      [] f.op = "unloadCollection" -> UnloadResume(s, f, ok)
      [] f.pc = "resolve" ->
           IF Enabling(f)
           THEN Deliver(EnableEnter(s, f, NestedId(f), NestedName(f)))
           ELSE Deliver(DisableEnter(s, f, NestedId(f), NestedName(f)))
      [] OTHER ->
           IF Enabling(f)
           THEN Deliver(EnableContinue(s, f, ok))
           ELSE Deliver(DisableContinue(s, f, ok))

\* what a step of another call does to a suspended frame: the iterator of
\* this.collections skips the entries deleted behind it, and a loadCollection
\* whose collection was deleted from the map is marked
Notice(f, before, after) ==
    [f EXCEPT
       !.ci = IF ByCategory(f) /\ InFlight(f)
              THEN Cardinality({ j \in 1..f.ci : MapHas(after, before[j].id) })
              ELSE @,
       !.removed = \/ @
                   \/ /\ f.op = "loadCollection" /\ InFlight(f)
                      /\ MapHas(before, f.id) /\ ~MapHas(after, f.id)]

\* the frames after the call of a slot has run to k; started: it is a new
\* call. The frame of a call that had completed before is dropped.
FramesAfter(slot, k, started) ==
    [t \in Slots |->
        IF t = slot
        THEN k.fr
        ELSE IF ~InFlight(frames[t])
             THEN IdleFrame
             ELSE Notice([frames[t] EXCEPT !.peers = IF started THEN @ \ {slot} ELSE @],
                         collections, k.st.collections)]

\* the plugin names more than one collection of the catalogue declares
SharedNames ==
    { n \in ArgNames : \E c, d \in Catalogue : c.id # d.id /\ n \in NamesOf(c) \cap NamesOf(d) }

\* a call may start in the first slot that holds no call in flight
Free(slot) ==
    /\ ~InFlight(frames[slot])
    /\ \A t \in Slots : t < slot => InFlight(frames[t])

StartLoadCollection ==
    \E slot \in Slots : \E c \in Catalogue :
        /\ Free(slot)
        /\ LET k == Begin(State, NewFrame(frames, slot, "loadCollection", c.id, "", "", c))
           IN /\ collections' = k.st.collections
              /\ enabledOverrides' = k.st.enabledOverrides
              /\ disabledOverrides' = k.st.disabledOverrides
              /\ pluginSettings' = k.st.pluginSettings
              /\ registered' = k.st.registered
              /\ frames' = FramesAfter(slot, k, TRUE)

StartUnloadCollection ==
    \E slot \in Slots : \E id \in CollectionIds :
        /\ Free(slot)
        /\ LET k == Begin(State, NewFrame(frames, slot, "unloadCollection", id, "", "",
                                          Undefined))
           IN /\ collections' = k.st.collections
              /\ enabledOverrides' = k.st.enabledOverrides
              /\ disabledOverrides' = k.st.disabledOverrides
              /\ pluginSettings' = k.st.pluginSettings
              /\ registered' = k.st.registered
              /\ frames' = FramesAfter(slot, k, TRUE)

StartEnablePlugin ==
    \E slot \in Slots : \E id \in CollectionIds : \E n \in SharedNames :
        /\ Free(slot)
        /\ LET k == Begin(State, NewFrame(frames, slot, "enablePlugin", id, n, "",
                                          Undefined))
           IN /\ collections' = k.st.collections
              /\ enabledOverrides' = k.st.enabledOverrides
              /\ disabledOverrides' = k.st.disabledOverrides
              /\ pluginSettings' = k.st.pluginSettings
              /\ registered' = k.st.registered
              /\ frames' = FramesAfter(slot, k, TRUE)

StartEnableAll ==
    \E slot \in Slots : \E id \in CollectionIds :
        /\ Free(slot)
        /\ LET k == Begin(State, NewFrame(frames, slot, "enableAll", id, "", "", Undefined))
           IN /\ collections' = k.st.collections
              /\ enabledOverrides' = k.st.enabledOverrides
              /\ disabledOverrides' = k.st.disabledOverrides
              /\ pluginSettings' = k.st.pluginSettings
              /\ registered' = k.st.registered
              /\ frames' = FramesAfter(slot, k, TRUE)

StartDisableAll ==
    \E slot \in Slots : \E id \in CollectionIds :
        /\ Free(slot)
        /\ LET k == Begin(State, NewFrame(frames, slot, "disableAll", id, "", "", Undefined))
           IN /\ collections' = k.st.collections
              /\ enabledOverrides' = k.st.enabledOverrides
              /\ disabledOverrides' = k.st.disabledOverrides
              /\ pluginSettings' = k.st.pluginSettings
              /\ registered' = k.st.registered
              /\ frames' = FramesAfter(slot, k, TRUE)

StartEnableCategory ==
    \E slot \in Slots : \E category \in ArgCategories :
        /\ Free(slot)
        /\ LET k == Begin(State, NewFrame(frames, slot, "enableCategory", "", "", category,
                                          Undefined))
           IN /\ collections' = k.st.collections
              /\ enabledOverrides' = k.st.enabledOverrides
              /\ disabledOverrides' = k.st.disabledOverrides
              /\ pluginSettings' = k.st.pluginSettings
              /\ registered' = k.st.registered
              /\ frames' = FramesAfter(slot, k, TRUE)

StartDisableCategory ==
    \E slot \in Slots : \E category \in ArgCategories :
        /\ Free(slot)
        /\ LET k == Begin(State, NewFrame(frames, slot, "disableCategory", "", "", category,
                                          Undefined))
           IN /\ collections' = k.st.collections
              /\ enabledOverrides' = k.st.enabledOverrides
              /\ disabledOverrides' = k.st.disabledOverrides
              /\ pluginSettings' = k.st.pluginSettings
              /\ registered' = k.st.registered
              /\ frames' = FramesAfter(slot, k, TRUE)

\* the awaited promise of the call in a slot settles and the call goes on;
\* ok is the answer of the registry to the call it makes in this step, if any
ResumeCall(slot) ==
    /\ InFlight(frames[slot])
    /\ \E ok \in BOOLEAN :
          LET k == Resume(State, frames[slot], ok)
          IN /\ collections' = k.st.collections
             /\ enabledOverrides' = k.st.enabledOverrides
             /\ disabledOverrides' = k.st.disabledOverrides
             /\ pluginSettings' = k.st.pluginSettings
             /\ registered' = k.st.registered
             /\ frames' = FramesAfter(slot, k, FALSE)

ResumeSome == \E slot \in Slots : ResumeCall(slot)

NextAsync ==
    \/ StartLoadCollection
    \/ StartUnloadCollection
    \/ StartEnablePlugin
    \/ ResumeSome

\* every interleaving of at most MaxInFlight calls that load, unload and enable
SpecAsync == Init /\ [][NextAsync]_vars

\* no call is in flight: a caller that awaits each call makes the next one
\* in such a state
Quiet == \A slot \in Slots : ~InFlight(frames[slot])

CallLoadCollection == Quiet /\ StartLoadCollection

CallUnloadCollection == Quiet /\ StartUnloadCollection

CallEnableAll == Quiet /\ StartEnableAll

CallDisableAll == Quiet /\ StartDisableAll

CallEnableCategory == Quiet /\ StartEnableCategory

CallDisableCategory == Quiet /\ StartDisableCategory

NextLive ==
    \/ CallLoadCollection
    \/ CallUnloadCollection
    \/ CallEnableAll
    \/ CallDisableAll
    \/ CallEnableCategory
    \/ CallDisableCategory
    \/ ResumeSome

\* the calls that walk the entries of collections, one at a time, with the
\* scheduling of the event loop: the promise a suspended call awaits settles
\* (the registry and the plugin factories answer), and the call is resumed
SpecLive ==
    /\ Init
    /\ [][NextLive]_vars
    /\ \A slot \in Slots : WF_vars(ResumeCall(slot))

-----------------------------------------------------------------------------
(* Vocabulary of the properties *)

\* the whole fixture of collection objects, whatever the bound
AllCollections == { CatalogueSeq[i] : i \in 1..Len(CatalogueSeq) }

EntryName(entry) == resolvePlugin(entry.plugin).name

EntriesOf(collection) == { collection.plugins[i] : i \in 1..Len(collection.plugins) }

\* the effective state of an entry as the data model defines it: explicitly
\* enabled, else not explicitly disabled and enabled by default
Effective(s, collectionId, entry) ==
    IF SetsHas(s.enabledOverrides, collectionId, EntryName(entry))
    THEN TRUE
    ELSE IF SetsHas(s.disabledOverrides, collectionId, EntryName(entry))
         THEN FALSE
         ELSE entry.defaultEnabled

\* the names the call registered, from its registry calls
RegisterCalls(cs) == { i \in 1..Len(cs) : cs[i].fn = "register" }

\* the calls to the registry among the calls of a log, in order
RegistryCalls(cs) == SelectSeq(cs, LAMBDA c : c.fn \in {"register", "unregister"})

\* the names of the calls fn(id, name) of a log, in order
MethodCallNames(cs, fn, id) ==
    LET picked == SelectSeq(cs, LAMBDA c : c.fn = fn /\ c.id = id)
    IN [k \in 1..Len(picked) |-> picked[k].name]

Loaded(id) == MapHas(collections, id)

\* the override sets of one collection id in a state (nothing when absent)
OverridesOf(s, id) ==
    << IF id \in DOMAIN s.enabledOverrides THEN {s.enabledOverrides[id]} ELSE {},
       IF id \in DOMAIN s.disabledOverrides THEN {s.disabledOverrides[id]} ELSE {} >>

-----------------------------------------------------------------------------
(* C1: in every reachable state, for every loaded collection C and every   *)
(* entry E of C, isEnabled(C, name(E)) returns the boolean effective(E).   *)
C1_IsEnabledIsEffective ==
    \A i \in 1..Len(collections) :
        \A entry \in EntriesOf(collections[i]) :
            isEnabled(State, collections[i].id, EntryName(entry))
                = JsBool(Effective(State, collections[i].id, entry))

(* C2: in every reachable state no plugin name is in both the explicit-    *)
(* enabled set and the explicit-disabled set of the same collection id.    *)
C2_OverridesDisjoint ==
    \A id \in DOMAIN enabledOverrides \cap DOMAIN disabledOverrides :
        enabledOverrides[id] \cap disabledOverrides[id] = {}

(* C3: when disablePlugin(C, n) is called on a registered plugin and the   *)
(* registry refuses the unregister, the call fails, the override sets of C *)
(* are as before the call and the plugin is still registered.              *)
C3_RefusedDisableCommitsNothing ==
    \A id \in CollectionIds : \A n \in NamesIn(collections, id) :
        n \in registered =>
            LET r == disablePlugin(State, id, n, [failReg |-> {}, failUnreg |-> {n}],
                                   << >>)
            IN /\ r.err # "none"
               /\ OverridesOf(r.st, id) = OverridesOf(State, id)
               /\ isEnabled(r.st, id, n) = isEnabled(State, id, n)
               /\ n \in r.st.registered

(* C4: a successful loadCollection(c) calls registry.register for exactly  *)
(* the entries of c whose effective state is enabled; an entry that is     *)
(* disabled by default and not explicitly enabled is not registered by it. *)
C4_LoadRegistersEnabledOnly ==
    \A c \in Catalogue : \A orc \in RegisterOracles(NamesOf(c)) :
        LET r == loadCollection(State, c, orc)
        IN r.err = "none" =>
              { r.calls[k].name : k \in RegisterCalls(r.calls) }
                  = { EntryName(e) : e \in { x \in EntriesOf(c) : Effective(r.st, c.id, x) } }


(* C5: loadCollection with an id that is already loaded always fails and   *)
(* leaves the stored collection, both override sets, the settings map and  *)
(* the registry membership unchanged; it makes no register call.           *)
C5_DuplicateLoadFails ==
    \A c \in AllCollections : \A orc \in RegisterOracles(NamesOf(c)) :
        Loaded(c.id) =>
            LET r == loadCollection(State, c, orc)
            IN /\ r.err = "DuplicateCollection"
               /\ r.st = State
               /\ r.calls = << >>

\* a collection is loaded, has overrides, the registry and the settings map
\* are not empty, and loading another object with its id fails as a duplicate
C5_Witness ==
    \E c \in AllCollections :
        /\ Loaded(c.id)
        /\ MapGet(collections, c.id) # c
        /\ enabledOverrides[c.id] # {}
        /\ disabledOverrides[c.id] # {}
        /\ registered # {}
        /\ pluginSettings # EmptySettings
        /\ loadCollection(State, c, NoFailure).err = "DuplicateCollection"

(* C6: overrides that importState supplies for a collection id that is not *)
(* loaded are applied when the collection is loaded afterwards: an entry   *)
(* in the imported disabled set is not registered by the load and          *)
(* isEnabled is false for it; an entry in the imported enabled set is      *)
(* registered and isEnabled is true for it, whatever its default.          *)
C6_LoadAppliesImportedOverrides ==
    \A snap \in SnapshotInputs : \A c \in Catalogue :
        ~Loaded(c.id) =>
            LET s1 == importState(State, snap).st
                r == loadCollection(s1, c, NoFailure)
                importedOn == IF c.id \in DOMAIN snap.enabledPlugins
                              THEN NewSet(snap.enabledPlugins[c.id]) ELSE {}
                importedOff == IF c.id \in DOMAIN snap.disabledPlugins
                               THEN NewSet(snap.disabledPlugins[c.id]) ELSE {}
            IN \A e \in EntriesOf(c) :
                  /\ EntryName(e) \in importedOff =>
                        /\ \A k \in RegisterCalls(r.calls) : r.calls[k].name # EntryName(e)
                        /\ isEnabled(r.st, c.id, EntryName(e)) = JsBool(FALSE)
                  /\ EntryName(e) \in importedOn =>
                        /\ EntryName(e) \in r.st.registered
                        /\ isEnabled(r.st, c.id, EntryName(e)) = JsBool(TRUE)

\* a manager nobody has called yet
FreshState ==
    [collections       |-> << >>,
     enabledOverrides  |-> EmptyMap,
     disabledOverrides |-> EmptyMap,
     pluginSettings    |-> EmptySettings,
     registered        |-> {}]

RECURSIVE LoadAll(_, _, _)
\* the manager after loading the collections cs[i], cs[i+1], ... in order
LoadAll(s, cs, i) ==
    IF i > Len(cs) THEN s ELSE LoadAll(loadCollection(s, cs[i], NoFailure).st, cs, i + 1)

\* a fresh manager with the collections of s loaded and the export of s imported
RoundTrip(s) == importState(LoadAll(FreshState, s.collections, 1), exportState(s)).st

\* the names with an explicit override for the collection id in s
Overridden(s, id) ==
    (IF id \in DOMAIN s.enabledOverrides THEN s.enabledOverrides[id] ELSE {})
        \cup (IF id \in DOMAIN s.disabledOverrides THEN s.disabledOverrides[id] ELSE {})

(* C7: round trip: exportState, then importState on a fresh manager with   *)
(* the same collections loaded, gives the same isEnabled boolean for every *)
(* collection/plugin pair that had an explicit override.                   *)
C7_RoundTripKeepsIsEnabled ==
    \A id \in DOMAIN enabledOverrides \cup DOMAIN disabledOverrides :
        \A n \in Overridden(State, id) :
            /\ isEnabled(RoundTrip(State), id, n).t = "boolean"
            /\ isEnabled(RoundTrip(State), id, n) = isEnabled(State, id, n)

(* C8: togglePlugin is its own inverse: two successive togglePlugin(C, n)  *)
(* calls on an entry of a loaded collection, with a registry that refuses  *)
(* nothing, leave the enabled state of n and the registry's membership of  *)
(* n as they were before the first call.                                   *)
C8_ToggleTwiceRestores ==
    \A i \in 1..Len(collections) : \A e \in EntriesOf(collections[i]) :
        LET id == collections[i].id
            r1 == togglePlugin(State, id, EntryName(e), NoFailure)
            r2 == togglePlugin(r1.st, id, EntryName(e), NoFailure)
        IN /\ Effective(r2.st, id, e) = Effective(State, id, e)
           /\ (EntryName(e) \in r2.st.registered) = (EntryName(e) \in registered)

(* C9: enablePlugin(C, n) and disablePlugin(C, n) on a loaded collection C *)
(* that has no entry named n fail with a plugin-not-found error and leave  *)
(* the override sets of C and the registry membership unchanged.           *)
C9_UnknownPluginFails ==
    \A id \in CollectionIds : \A n \in ArgNames \ NamesIn(collections, id) :
        Loaded(id) =>
            \A r \in { enablePlugin(State, id, n, NoFailure, << >>),
                       disablePlugin(State, id, n, NoFailure, << >>) } :
                /\ r.err = "PluginNotFound"
                /\ OverridesOf(r.st, id) = OverridesOf(State, id)
                /\ r.st.registered = registered

\* the results of the calls that take a collection id, for one id and name
CallsOn(id, n, orc) ==
    { unloadCollection(State, id, orc),
      enablePlugin(State, id, n, orc, << >>),
      disablePlugin(State, id, n, orc, << >>),
      togglePlugin(State, id, n, orc),
      enableAll(State, id, orc),
      disableAll(State, id, orc) }

(* C10: unloadCollection, enablePlugin, disablePlugin, togglePlugin,       *)
(* enableAll and disableAll with a collection id that is not loaded fail   *)
(* with a collection-not-found error and leave the collection map, the     *)
(* override sets, the settings map and the registry membership unchanged.  *)
C10_UnknownCollectionFails ==
    \A id \in ArgIds : \A n \in ArgNames : \A orc \in EitherOracles(ArgNames) :
        ~Loaded(id) =>
            \A r \in CallsOn(id, n, orc) :
                /\ r.err = "CollectionNotFound"
                /\ r.st = State
                /\ RegistryCalls(r.calls) = << >>

\* a collection id is not loaded although overrides are stored for it, and
\* another collection is loaded, with plugins registered and settings stored;
\* every call on the unloaded id fails as not found
C10_Witness ==
    \E id \in ArgIds :
        /\ ~Loaded(id)
        /\ Overridden(State, id) # {}
        /\ Len(collections) > 0
        /\ registered # {}
        /\ pluginSettings # EmptySettings
        /\ \A n \in ArgNames : \A r \in CallsOn(id, n, NoFailure) :
              r.err = "CollectionNotFound"

\* a registry that refuses to register the name n and nothing else
RefuseRegister(n) == [failReg |-> {n}, failUnreg |-> {}]

(* C11: when enablePlugin(C, n) on an entry of a loaded collection needs   *)
(* the registry to register n and the registry refuses, the call fails     *)
(* with the registry's error and n is not left in the explicit-enabled set *)
(* of C while the plugin is unregistered.                                  *)
C11_RefusedEnableLeavesNoOverride ==
    \A id \in CollectionIds : \A n \in NamesIn(collections, id) :
        n \notin registered =>
            LET r == enablePlugin(State, id, n, RefuseRegister(n), << >>)
            IN /\ r.err = "RegistrationFailure"
               /\ ~(SetsHas(r.st.enabledOverrides, id, n) /\ n \notin r.st.registered)

(* C12: enablePlugin(C, n) on an entry of a loaded collection, with a      *)
(* registry that refuses nothing, succeeds, and afterwards n is in the     *)
(* explicit-enabled set of C, not in its explicit-disabled set,            *)
(* isEnabled(C, n) is true and the plugin n is registered.                 *)
C12_EnableEstablishes ==
    \A id \in CollectionIds : \A n \in NamesIn(collections, id) :
        LET r == enablePlugin(State, id, n, NoFailure, << >>)
        IN /\ r.err = "none"
           /\ SetsHas(r.st.enabledOverrides, id, n)
           /\ ~SetsHas(r.st.disabledOverrides, id, n)
           /\ isEnabled(r.st, id, n) = JsBool(TRUE)
           /\ n \in r.st.registered

(* C13: disablePlugin(C, n) on an entry of a loaded collection, with a     *)
(* registry that refuses nothing, succeeds, and afterwards n is in the     *)
(* explicit-disabled set of C, not in its explicit-enabled set,            *)
(* isEnabled(C, n) is false and the plugin n is not registered; unregister *)
(* is called exactly when the registry held n at the time of the call.     *)
C13_DisableEstablishes ==
    \A id \in CollectionIds : \A n \in NamesIn(collections, id) :
        LET r == disablePlugin(State, id, n, NoFailure, << >>)
        IN /\ r.err = "none"
           /\ SetsHas(r.st.disabledOverrides, id, n)
           /\ ~SetsHas(r.st.enabledOverrides, id, n)
           /\ isEnabled(r.st, id, n) = JsBool(FALSE)
           /\ n \notin r.st.registered
           /\ r.calls = IF n \in registered
                        THEN << UnregisterCall(n, TRUE) >>
                        ELSE << >>

(* C14: isEnabled(C, n) returns the boolean false whenever C is not a      *)
(* loaded collection id or n is not the resolved name of an entry of C.    *)
(* (isEnabled is an operator of the state: it changes nothing.)            *)
C14_IsEnabledFalseForUnknown ==
    \A id \in ArgIds : \A n \in ArgNames :
        (~Loaded(id) \/ n \notin NamesIn(collections, id)) =>
            isEnabled(State, id, n) = JsBool(FALSE)

(* C15: togglePlugin(C, n) on an entry of a loaded collection, with a      *)
(* registry that refuses nothing, succeeds; it disables when the entry is  *)
(* effectively enabled and enables otherwise, and the boolean it returns   *)
(* is isEnabled(C, n) right after the call and the negation of             *)
(* isEnabled(C, n) right before it.                                        *)
C15_ToggleReturnsNewState ==
    \A i \in 1..Len(collections) : \A e \in EntriesOf(collections[i]) :
        LET id == collections[i].id
            n == EntryName(e)
            r == togglePlugin(State, id, n, NoFailure)
        IN /\ r.err = "none"
           /\ r.calls # << >>
           /\ r.calls[1] = MethodCall(IF Effective(State, id, e)
                                      THEN "disablePlugin" ELSE "enablePlugin", id, n)
           /\ isEnabled(State, id, n) = JsBool(Effective(State, id, e))
           /\ r.ret = JsBool(~Effective(State, id, e))
           /\ r.ret = isEnabled(r.st, id, n)

\* the calls of a log that failed
FailedCalls(cs) == { k \in 1..Len(cs) : ~cs[k].ok }

\* where the entry named n is declared in a collection
DeclaredAt(collection, n) ==
    CHOOSE i \in 1..Len(collection.plugins) : EntryName(collection.plugins[i]) = n

(* C16: when a registry.register call fails during loadCollection, the     *)
(* load fails with the registry's error, makes no further call, every      *)
(* entry it registered before stays registered, and no entry declared      *)
(* after the failing one is registered by that load.                       *)
C16_FailedLoadKeepsEarlier ==
    \A c \in Catalogue : \A orc \in RegisterOracles(NamesOf(c)) :
        LET r == loadCollection(State, c, orc)
            last == Len(r.calls)
        IN FailedCalls(r.calls) # {} =>
              /\ r.err = "RegistrationFailure"
              /\ FailedCalls(r.calls) = {last}
              /\ \A k \in 1..(last - 1) : r.calls[k].name \in r.st.registered
              /\ registered \subseteq r.st.registered
              /\ \A j \in 1..Len(c.plugins) :
                    j > DeclaredAt(c, r.calls[last].name) =>
                        /\ \A k \in 1..last : r.calls[k].name # EntryName(c.plugins[j])
                        /\ EntryName(c.plugins[j]) \in r.st.registered
                              => EntryName(c.plugins[j]) \in registered

\* a collection of two entries is not loaded, another one is, and neither
\* name is registered: a load that fails at the second entry leaves the first registered, and a
\* load that fails at the first entry registers neither
C16_Witness ==
    \E c \in Catalogue :
        /\ ~Loaded(c.id)
        /\ Len(c.plugins) = 2
        /\ Len(collections) > 0
        /\ NamesOf(c) \cap registered = {}
        /\ LET n1 == EntryName(c.plugins[1])
               n2 == EntryName(c.plugins[2])
               r1 == loadCollection(State, c, RefuseRegister(n1))
               r2 == loadCollection(State, c, RefuseRegister(n2))
           IN /\ r1.err = "RegistrationFailure"
              /\ r1.st.registered = registered
              /\ r2.err = "RegistrationFailure"
              /\ r2.st.registered = registered \cup {n1}

\* the names of the entries of a collection that a registry holds, as declared
HeldNames(collection, reg) ==
    LET held == SelectSeq(collection.plugins, LAMBDA e : EntryName(e) \in reg)
    IN [k \in 1..Len(held) |-> EntryName(held[k])]

(* C17: unloadCollection(id) on a loaded id succeeds whatever unregister   *)
(* calls fail: it calls unregister once for every entry whose name the     *)
(* registry holds and for no other, a name stays registered exactly when   *)
(* its unregister failed, and afterwards the id is not loaded              *)
(* (getCollection gives undefined, isEnabled gives false for all its       *)
(* names) and neither override map has the id.                             *)
C17_UnloadAlwaysSucceeds ==
    \A i \in 1..Len(collections) :
        \A orc \in UnregisterOracles(NamesOf(collections[i])) :
            LET c == collections[i]
                r == unloadCollection(State, c.id, orc)
            IN /\ r.err = "none"
               /\ [k \in 1..Len(r.calls) |-> r.calls[k].name] = HeldNames(c, registered)
               /\ \A k \in 1..Len(r.calls) :
                     r.calls[k] = UnregisterCall(r.calls[k].name,
                                                 r.calls[k].name \notin orc.failUnreg)
               /\ r.st.registered = registered \ (NamesOf(c) \ orc.failUnreg)
               /\ ~MapHas(r.st.collections, c.id)
               /\ getCollection(r.st, c.id) = Undefined
               /\ \A n \in NamesOf(c) : isEnabled(r.st, c.id, n) = JsBool(FALSE)
               /\ c.id \notin DOMAIN r.st.enabledOverrides
               /\ c.id \notin DOMAIN r.st.disabledOverrides

\* a loaded collection with two registered entries and overrides in both of
\* its sets is unloaded while the registry refuses to unregister the first
\* entry: the unload succeeds and only the second entry is unregistered
C17_Witness ==
    \E i \in 1..Len(collections) :
        LET c == collections[i]
        IN /\ Len(c.plugins) = 2
           /\ NamesOf(c) \subseteq registered
           /\ enabledOverrides[c.id] # {}
           /\ disabledOverrides[c.id] # {}
           /\ LET n1 == EntryName(c.plugins[1])
                  n2 == EntryName(c.plugins[2])
                  r == unloadCollection(State, c.id, [failReg |-> {}, failUnreg |-> {n1}])
              IN /\ r.err = "none"
                 /\ Len(r.calls) = 2
                 /\ r.st.registered = registered \ {n2}
                 /\ ~MapHas(r.st.collections, c.id)

(* C18: unloadCollection and loadCollection leave the settings map         *)
(* unchanged, whatever the registry answers: getPluginSettings(n) gives    *)
(* the same payload before an unload, after it, and after the collection   *)
(* is loaded again.                                                        *)
C18_SettingsSurviveUnloadAndLoad ==
    /\ \A c \in Catalogue : \A orc \in RegisterOracles(NamesOf(c)) :
          loadCollection(State, c, orc).st.pluginSettings = pluginSettings
    /\ \A id \in ArgIds : \A orc \in UnregisterOracles(NamesIn(collections, id)) :
          unloadCollection(State, id, orc).st.pluginSettings = pluginSettings
    /\ \A i \in 1..Len(collections) :
          \A orc \in EitherOracles(NamesOf(collections[i])) :
              LET c == collections[i]
                  r1 == unloadCollection(State, c.id, orc)
                  r2 == loadCollection(r1.st, c, orc)
              IN \A n \in ArgNames :
                    /\ getPluginSettings(r1.st, n) = getPluginSettings(State, n)
                    /\ getPluginSettings(r2.st, n) = getPluginSettings(State, n)

\* settings are stored for an entry of a loaded collection; the collection
\* is unloaded and loaded again, and the payload is the same at each point
C18_Witness ==
    \E i \in 1..Len(collections) : \E n \in NamesOf(collections[i]) :
        LET c == collections[i]
            r1 == unloadCollection(State, c.id, NoFailure)
            r2 == loadCollection(r1.st, c, NoFailure)
        IN /\ getPluginSettings(State, n) # EmptyPayload
           /\ r1.err = "none"
           /\ ~MapHas(r1.st.collections, c.id)
           /\ getPluginSettings(r1.st, n) = getPluginSettings(State, n)
           /\ r2.err = "none"
           /\ MapHas(r2.st.collections, c.id)
           /\ getPluginSettings(r2.st, n) = getPluginSettings(State, n)

(* C19: disableAll(C) on a loaded collection never fails: it calls         *)
(* disablePlugin for every entry of C and swallows each failure, so that   *)
(* afterwards an entry whose unregister failed is still registered and     *)
(* every entry whose unregister did not fail is unregistered.              *)
C19_DisableAllMaximalProgress ==
    \A i \in 1..Len(collections) :
        \A orc \in UnregisterOracles(NamesOf(collections[i])) :
            LET c == collections[i]
                r == disableAll(State, c.id, orc)
            IN /\ r.err = "none"
               /\ \A n \in NamesOf(c) :
                     \E k \in 1..Len(r.calls) :
                         r.calls[k] = MethodCall("disablePlugin", c.id, n)
               /\ \A n \in NamesOf(c) \cap registered :
                     n \in orc.failUnreg => n \in r.st.registered
               /\ \A n \in NamesOf(c) :
                     n \notin orc.failUnreg => n \notin r.st.registered

\* the names of the entries of a collection, last declared first; with a
\* category, only those of the entries of that category
ReverseNames(collection) ==
    [k \in 1..Len(collection.plugins) |-> EntryName(Reverse(collection.plugins)[k])]

ReverseNamesIn(collection, category) ==
    LET picked == SelectSeq(Reverse(collection.plugins),
                            LAMBDA e : e.category = category)
    IN [k \in 1..Len(picked) |-> EntryName(picked[k])]

(* C20: disableAll(C) calls disablePlugin for the entries of C in reverse  *)
(* declared order, and disableCategory(cat) does so, within each loaded    *)
(* collection, for its entries of that category: of two entries of one     *)
(* collection the one declared later is disabled first.                    *)
C20_DisableInReverseOrder ==
    \A i \in 1..Len(collections) :
        LET c == collections[i]
        IN /\ \A orc \in UnregisterOracles(NamesOf(c)) :
                LET r == disableAll(State, c.id, orc)
                IN MethodCallNames(r.calls, "disablePlugin", c.id) = ReverseNames(c)
           /\ \A cat \in ArgCategories :
                \A orc \in UnregisterOracles(AllNames(collections)) :
                    LET r == disableCategory(State, cat, orc)
                    IN MethodCallNames(r.calls, "disablePlugin", c.id)
                          = ReverseNamesIn(c, cat)

\* a collection with two entries of one category is loaded: disableAll and
\* disableCategory call disablePlugin for the second entry, then for the first
C20_Witness ==
    \E i \in 1..Len(collections) :
        LET c == collections[i]
            n1 == EntryName(c.plugins[1])
            n2 == EntryName(c.plugins[2])
        IN /\ Len(c.plugins) = 2
           /\ c.plugins[1].category = c.plugins[2].category
           /\ n1 # n2
           /\ {n1, n2} \subseteq registered
           /\ MethodCallNames(disableAll(State, c.id, NoFailure).calls,
                              "disablePlugin", c.id) = << n2, n1 >>
           /\ MethodCallNames(disableCategory(State, c.plugins[1].category,
                                              NoFailure).calls,
                              "disablePlugin", c.id) = << n2, n1 >>

RECURSIVE FirstFailure(_, _, _, _, _)
\* enabling the entries from the i-th on, one after the other: where the first
\* enablePlugin call fails and with what error (at 0 when none fails)
FirstFailure(s, collectionId, entries, i, orc) ==
    IF i > Len(entries)
    THEN [at |-> 0, err |-> "none"]
    ELSE LET r == enablePlugin(s, collectionId, EntryName(entries[i]), orc, << >>)
         IN IF r.err # "none"
            THEN [at |-> i, err |-> r.err]
            ELSE FirstFailure(r.st, collectionId, entries, i + 1, orc)

(* C21: enableAll(C) fails fast: it calls enablePlugin for the entries of  *)
(* C in declared order, and when one of these calls fails it fails with    *)
(* that error, having called enablePlugin for the entries up to the        *)
(* failing one only: no override of an entry declared after it changes and *)
(* no registry call is made for such an entry.                             *)
C21_EnableAllFailsFast ==
    \A i \in 1..Len(collections) :
        \A orc \in RegisterOracles(NamesOf(collections[i])) :
            LET c == collections[i]
                r == enableAll(State, c.id, orc)
                steps == MethodCallNames(r.calls, "enablePlugin", c.id)
                f == FirstFailure(State, c.id, c.plugins, 1, orc).at
            IN f # 0 =>
                  /\ r.err = FirstFailure(State, c.id, c.plugins, 1, orc).err
                  /\ steps = [k \in 1..f |-> EntryName(c.plugins[k])]
                  /\ \A k \in 1..(f - 1) :
                        SetsHas(r.st.enabledOverrides, c.id, EntryName(c.plugins[k]))
                  /\ \A j \in (f + 1)..Len(c.plugins) :
                        LET n == EntryName(c.plugins[j])
                        IN /\ SetsHas(r.st.enabledOverrides, c.id, n)
                                = SetsHas(enabledOverrides, c.id, n)
                           /\ SetsHas(r.st.disabledOverrides, c.id, n)
                                = SetsHas(disabledOverrides, c.id, n)
                           /\ (n \in r.st.registered) = (n \in registered)
                           /\ \A k \in 1..Len(r.calls) : r.calls[k].name # n

\* a loaded collection of two entries whose second entry is explicitly
\* disabled: enableAll fails at the first entry and the second entry is
\* still explicitly disabled, enablePlugin was not called for it
C21_Witness ==
    \E i \in 1..Len(collections) :
        LET c == collections[i]
            n2 == EntryName(c.plugins[2])
            r == enableAll(State, c.id, NoFailure)
        IN /\ Len(c.plugins) = 2
           /\ SetsHas(disabledOverrides, c.id, n2)
           /\ r.err # "none"
           /\ MethodCallNames(r.calls, "enablePlugin", c.id)
                 = << EntryName(c.plugins[1]) >>
           /\ SetsHas(r.st.disabledOverrides, c.id, n2)
           /\ ~SetsHas(r.st.enabledOverrides, c.id, n2)

\* the entries of a collection that have the category
EntriesIn(collection, category) == { e \in EntriesOf(collection) : e.category = category }

(* C22: enableCategory(cat) completes without error whatever registrations *)
(* fail, and when registering a cat entry of one loaded collection fails,  *)
(* every cat entry of every other loaded collection whose registration is  *)
(* not refused ends up enabled: isEnabled is true for it and it is         *)
(* registered.  (Stated on the manager with one more collection loaded, so *)
(* that two loaded collections have entries of one category.)              *)
C22_EnableCategoryContinues ==
    \A c \in AllCollections :
        ~Loaded(c.id) =>
            LET s1 == loadCollection(State, c, NoFailure).st
            IN \A cat \in ArgCategories :
                 \A orc \in RegisterOracles(AllNames(s1.collections)) :
                    LET r == enableCategory(s1, cat, orc)
                    IN /\ r.err = "none"
                       /\ \A a, b \in 1..Len(s1.collections) :
                             (/\ a # b
                              /\ \E e \in EntriesIn(s1.collections[a], cat) :
                                    /\ EntryName(e) \in orc.failReg
                                    /\ EntryName(e) \notin s1.registered)
                             => \A e \in EntriesIn(s1.collections[b], cat) :
                                   EntryName(e) \notin orc.failReg =>
                                       /\ isEnabled(r.st, s1.collections[b].id,
                                                    EntryName(e)) = JsBool(TRUE)
                                       /\ EntryName(e) \in r.st.registered

\* the places of the entries of the loaded collections: collection, entry
LoadedPlaces ==
    UNION { { << i, j >> : j \in 1..Len(collections[i].plugins) } :
              i \in 1..Len(collections) }

RECURSIVE SumOf(_, _)
\* the sum of the numbers f[k] for k in keys
SumOf(f, keys) ==
    IF keys = {}
    THEN 0
    ELSE LET k == CHOOSE x \in keys : TRUE IN f[k] + SumOf(f, keys \ {k})

(* C23: in every reachable state getStats() reports the number of loaded   *)
(* collections, the number of entries over all of them, as enabledPlugins  *)
(* the number of those entries whose effective state is enabled, as        *)
(* disabledPlugins the rest, and a count for each of the nine categories,  *)
(* the counts summing to the number of entries.                            *)
C23_StatsCountEffective ==
    LET stats == getStats(State)
        on == { p \in LoadedPlaces :
                  Effective(State, collections[p[1]].id, collections[p[1]].plugins[p[2]]) }
    IN /\ stats.totalCollections = Len(collections)
       /\ stats.totalPlugins = Cardinality(LoadedPlaces)
       /\ stats.enabledPlugins = Cardinality(on)
       /\ stats.disabledPlugins = stats.totalPlugins - stats.enabledPlugins
       /\ DOMAIN stats.byCategory = PluginCategories
       /\ Cardinality(PluginCategories) = 9
       /\ SumOf(stats.byCategory, PluginCategories) = stats.totalPlugins

\* the names a snapshot map gives for a collection id (none when it omits the id)
SnapshotNames(obj, id) == IF id \in DOMAIN obj THEN NewSet(obj[id]) ELSE {}

\* the explicit overrides of a collection id in a map of sets (none when absent)
NamesAt(m, id) == IF id \in DOMAIN m THEN m[id] ELSE {}

(* C24: after importState(s), for every collection id present in           *)
(* s.enabledPlugins or in s.disabledPlugins, loaded or not, the explicit-  *)
(* enabled set of the id is exactly s.enabledPlugins[id] and its explicit- *)
(* disabled set is exactly s.disabledPlugins[id], empty when the map omits *)
(* the id: no earlier override of the id survives.                         *)
C24_ImportReplacesOverrides ==
    \A snap \in SnapshotInputs :
        LET r == importState(State, snap)
        IN /\ r.err = "none"
           /\ \A id \in DOMAIN snap.enabledPlugins \cup DOMAIN snap.disabledPlugins :
                 /\ NamesAt(r.st.enabledOverrides, id)
                       = SnapshotNames(snap.enabledPlugins, id)
                 /\ NamesAt(r.st.disabledOverrides, id)
                       = SnapshotNames(snap.disabledPlugins, id)

\* obj has a key exactly for the ids whose set in m is not empty, and the
\* array at the key lists the names of that set, each once
ListsNonEmpty(obj, m) ==
    /\ DOMAIN obj = { id \in DOMAIN m : m[id] # {} }
    /\ \A id \in DOMAIN obj :
          /\ NewSet(obj[id]) = m[id]
          /\ Len(obj[id]) = Cardinality(m[id])

(* C25: exportState() returns version "1.0.0", the ids of exactly the      *)
(* loaded collections, the complete settings map, and enabledPlugins and   *)
(* disabledPlugins maps that have a key for a collection id exactly when   *)
(* the corresponding override set is not empty, with the names of that set *)
(* as the value.                                                           *)
C25_ExportIsMinimalAndComplete ==
    LET x == exportState(State)
    IN /\ x.version = "1.0.0"
       /\ x.collections = [i \in 1..Len(collections) |-> collections[i].id]
       /\ NewSet(x.collections) = MapKeys(collections)
       /\ x.pluginSettings = pluginSettings
       /\ ListsNonEmpty(x.enabledPlugins, enabledOverrides)
       /\ ListsNonEmpty(x.disabledPlugins, disabledOverrides)

\* a collection is loaded with an explicit-enabled name and no explicit-
\* disabled one, overrides are stored for an id that is not loaded, and
\* settings are stored: the export lists the loaded id only, has the enabled
\* set of the loaded id and no key for its empty disabled set
C25_Witness ==
    \E i \in 1..Len(collections) : \E other \in DOMAIN enabledOverrides :
        LET id == collections[i].id
            x == exportState(State)
        IN /\ enabledOverrides[id] # {}
           /\ disabledOverrides[id] = {}
           /\ ~Loaded(other)
           /\ enabledOverrides[other] # {}
           /\ pluginSettings # EmptySettings
           /\ id \in DOMAIN x.enabledPlugins
           /\ id \notin DOMAIN x.disabledPlugins
           /\ other \in DOMAIN x.enabledPlugins
           /\ NewSet(x.collections) = MapKeys(collections)

\* the names the registry holds when the k-th call of a log that starts with
\* the registry reg is made: reg, changed by the calls before it that succeeded
HeldAt(reg, cs, k) ==
    (reg \cup { cs[j].name : j \in { i \in 1..(k - 1) : cs[i].fn = "register" /\ cs[i].ok } })
        \ { cs[j].name : j \in { i \in 1..(k - 1) : cs[i].fn = "unregister" /\ cs[i].ok } }

\* no register call of the log is for a name the registry holds at that time
NoDoubleRegister(reg, cs) ==
    \A k \in RegisterCalls(cs) : cs[k].name \notin HeldAt(reg, cs, k)

(* C26: none of loadCollection, enablePlugin, enableAll and enableCategory *)
(* calls registry.register for a plugin name the registry holds at the     *)
(* time of the call, also when a collection that is already loaded has     *)
(* registered an entry of the same name.                                   *)
C26_NoDoubleRegistration ==
    /\ \A c \in Catalogue : \A orc \in RegisterOracles(NamesOf(c)) :
          NoDoubleRegister(registered, loadCollection(State, c, orc).calls)
    /\ \A id \in ArgIds : \A n \in ArgNames : \A orc \in RegisterOracles({n}) :
          NoDoubleRegister(registered, enablePlugin(State, id, n, orc, << >>).calls)
    /\ \A id \in ArgIds : \A orc \in RegisterOracles(NamesIn(collections, id)) :
          NoDoubleRegister(registered, enableAll(State, id, orc).calls)
    /\ \A cat \in ArgCategories : \A orc \in RegisterOracles(AllNames(collections)) :
          NoDoubleRegister(registered, enableCategory(State, cat, orc).calls)

\* every register call of the log carries enabled = true and the payload
\* that the settings map holds for its name
CarriesStoredSettings(settingsMap, cs) ==
    \A k \in RegisterCalls(cs) :
        /\ cs[k].enabled = TRUE
        /\ cs[k].settings = SettingsOf(settingsMap, cs[k].name)

(* C27: every registry.register call the manager makes for a plugin n      *)
(* carries a config with enabled = true and, as settings, the payload      *)
(* stored for n at the time of the call (the empty payload when none is    *)
(* stored); settings set or updated before the call are the ones attached. *)
C27_RegisterCarriesSettings ==
    /\ \A c \in Catalogue : \A orc \in RegisterOracles(NamesOf(c)) :
          /\ CarriesStoredSettings(pluginSettings, loadCollection(State, c, orc).calls)
          /\ \A n \in SettingNames : \A p \in Payloads :
                \A s1 \in { setPluginSettings(State, n, p).st,
                             updatePluginSettings(State, n, p).st } :
                    CarriesStoredSettings(s1.pluginSettings,
                                          loadCollection(s1, c, orc).calls)
    /\ \A id \in ArgIds : \A n \in ArgNames : \A orc \in RegisterOracles({n}) :
          CarriesStoredSettings(pluginSettings,
                                enablePlugin(State, id, n, orc, << >>).calls)
    /\ \A id \in ArgIds : \A orc \in RegisterOracles(NamesIn(collections, id)) :
          CarriesStoredSettings(pluginSettings, enableAll(State, id, orc).calls)
    /\ \A cat \in ArgCategories : \A orc \in RegisterOracles(AllNames(collections)) :
          CarriesStoredSettings(pluginSettings, enableCategory(State, cat, orc).calls)

\* settings are stored for a plugin that the registry does not hold: loading
\* a collection that has it registers it with that payload, and another
\* plugin of the collection, which has no settings, with the empty payload
C27_Witness ==
    \E c \in Catalogue : \E n \in NamesOf(c) : \E m \in NamesOf(c) :
        LET r == loadCollection(State, c, NoFailure)
        IN /\ ~Loaded(c.id)
           /\ n \notin registered
           /\ getPluginSettings(State, n) # EmptyPayload
           /\ m \notin DOMAIN pluginSettings
           /\ r.err = "none"
           /\ \E k \in RegisterCalls(r.calls) :
                 r.calls[k] = RegisterCall(n, TRUE, getPluginSettings(State, n))
           /\ \E k \in RegisterCalls(r.calls) :
                 r.calls[k] = RegisterCall(m, TRUE, EmptyPayload)

\* every payload of the fixture and the empty one
AllPayloads == { PayloadSeq[i] : i \in 1..Len(PayloadSeq) } \cup {EmptyPayload}

(* C28: setPluginSettings and updatePluginSettings succeed without calling *)
(* the registry and change no collection, no override set and no registry  *)
(* membership, also for a plugin that is registered.  (getPluginSettings   *)
(* is an operator of the state: it changes nothing.)                       *)
C28_SettingsTouchNothingElse ==
    \A n \in ArgNames : \A p \in AllPayloads :
        \A r \in { setPluginSettings(State, n, p), updatePluginSettings(State, n, p) } :
            /\ r.err = "none"
            /\ r.calls = << >>
            /\ r.st.collections = collections
            /\ r.st.enabledOverrides = enabledOverrides
            /\ r.st.disabledOverrides = disabledOverrides
            /\ r.st.registered = registered

\* a plugin of a loaded collection is registered and has overrides; setting
\* and updating its settings changes the stored payload and nothing else
C28_Witness ==
    \E i \in 1..Len(collections) : \E n \in NamesOf(collections[i]) :
        \E p \in AllPayloads :
            LET r1 == setPluginSettings(State, n, p)
                r2 == updatePluginSettings(State, n, p)
            IN /\ n \in registered
               /\ Overridden(State, collections[i].id) # {}
               /\ r1.st.pluginSettings # pluginSettings
               /\ r2.st.pluginSettings # pluginSettings
               /\ r1.calls = << >> /\ r2.calls = << >>
               /\ r1.st.registered = registered
               /\ r2.st.registered = registered

(* C29: for every plugin name n and payloads s, t: after                   *)
(* setPluginSettings(n, s), getPluginSettings(n) is s; after a following   *)
(* updatePluginSettings(n, t) it has the keys of s and of t, with t's      *)
(* value for a key of t and s's value otherwise; getPluginSettings of a    *)
(* name without stored settings is the empty payload; the settings of      *)
(* every other name are unchanged by both calls.                           *)
C29_SetReplacesUpdateMerges ==
    \A n \in ArgNames :
        /\ n \notin DOMAIN pluginSettings => getPluginSettings(State, n) = EmptyPayload
        /\ \A s \in AllPayloads : \A t \in AllPayloads :
              LET s1 == setPluginSettings(State, n, s).st
                  s2 == updatePluginSettings(s1, n, t).st
                  merged == getPluginSettings(s2, n)
              IN /\ getPluginSettings(s1, n) = s
                 /\ DOMAIN merged = DOMAIN s \cup DOMAIN t
                 /\ \A k \in DOMAIN merged :
                       merged[k] = IF k \in DOMAIN t THEN t[k] ELSE s[k]
                 /\ \A m \in ArgNames \ {n} :
                       /\ getPluginSettings(s1, m) = getPluginSettings(State, m)
                       /\ getPluginSettings(s2, m) = getPluginSettings(State, m)

\* settings are stored for one name and none for another: setting a payload
\* for the first drops the stored one, and updating with a payload that has
\* another key keeps the key that was set and adds the other
C29_Witness ==
    \E n \in ArgNames : \E m \in ArgNames \ {n} :
        \E s \in AllPayloads : \E t \in AllPayloads :
            LET s1 == setPluginSettings(State, n, s).st
                s2 == updatePluginSettings(s1, n, t).st
            IN /\ getPluginSettings(State, n) # EmptyPayload
               /\ m \notin DOMAIN pluginSettings
               /\ getPluginSettings(State, m) = EmptyPayload
               /\ s # getPluginSettings(State, n)
               /\ DOMAIN s \ DOMAIN t # {}
               /\ DOMAIN t \ DOMAIN s # {}
               /\ getPluginSettings(s1, n) = s
               /\ DOMAIN getPluginSettings(s2, n) = DOMAIN s \cup DOMAIN t
               /\ getPluginSettings(s2, m) = EmptyPayload

\* the collection ids a snapshot names in one of its override maps
SnapshotIdsOf(snap) == DOMAIN snap.enabledPlugins \cup DOMAIN snap.disabledPlugins

(* C30: importState only restores overrides and settings: it succeeds,     *)
(* loads and unloads no collection, makes no registry call and changes no  *)
(* registry membership, leaves the override sets of every collection id    *)
(* that the input does not name as they were, and leaves the settings of   *)
(* every plugin name that the input does not name as they were.            *)
C30_ImportTouchesOnlyItsInput ==
    \A snap \in SnapshotInputs :
        LET r == importState(State, snap)
        IN /\ r.err = "none"
           /\ r.calls = << >>
           /\ r.st.collections = collections
           /\ r.st.registered = registered
           /\ \A id \in (ArgIds \cup DOMAIN enabledOverrides \cup DOMAIN disabledOverrides)
                            \ SnapshotIdsOf(snap) :
                 OverridesOf(r.st, id) = OverridesOf(State, id)
           /\ \A n \in (ArgNames \cup DOMAIN pluginSettings) \ DOMAIN snap.pluginSettings :
                 /\ (n \in DOMAIN r.st.pluginSettings) = (n \in DOMAIN pluginSettings)
                 /\ getPluginSettings(r.st, n) = getPluginSettings(State, n)

\* a collection is loaded with plugins registered and overrides of its own,
\* settings are stored for a plugin; a snapshot that names another collection
\* id and no settings is imported: the override sets of that id change, and
\* the collection, the registry, the other overrides and the settings do not
C30_Witness ==
    \E snap \in SnapshotInputs : \E i \in 1..Len(collections) :
        LET id == collections[i].id
            r == importState(State, snap)
        IN /\ id \notin SnapshotIdsOf(snap)
           /\ SnapshotIdsOf(snap) # {}
           /\ Overridden(State, id) # {}
           /\ registered # {}
           /\ pluginSettings # EmptySettings
           /\ snap.pluginSettings = EmptySettings
           /\ r.st.enabledOverrides # enabledOverrides
           /\ OverridesOf(r.st, id) = OverridesOf(State, id)
           /\ r.st.pluginSettings = pluginSettings
           /\ r.st.collections = collections
           /\ r.st.registered = registered

\* each entry of each loaded collection is registered exactly when its
\* effective state is enabled
Agrees(s) ==
    \A i \in 1..Len(s.collections) : \A e \in EntriesOf(s.collections[i]) :
        (EntryName(e) \in s.registered) = Effective(s, s.collections[i].id, e)

\* no plugin name occurs in two loaded collections
NoSharedName(s) ==
    \A i, j \in 1..Len(s.collections) :
        i # j => NamesOf(s.collections[i]) \cap NamesOf(s.collections[j]) = {}

\* the results of the calls that load, unload, enable and disable, for one
\* collection, id and name, with a registry that refuses nothing
ActivationCalls(c, id, n) ==
    { loadCollection(State, c, NoFailure),
      unloadCollection(State, id, NoFailure),
      enablePlugin(State, id, n, NoFailure, << >>),
      disablePlugin(State, id, n, NoFailure, << >>),
      togglePlugin(State, id, n, NoFailure),
      enableAll(State, id, NoFailure),
      disableAll(State, id, NoFailure) }

(* C31: activation state and registry membership agree, and completed      *)
(* calls keep them so: from a state in which each entry of each loaded     *)
(* collection is registered exactly when its effective state is enabled    *)
(* (the fresh manager is one), a loadCollection, unloadCollection,         *)
(* enablePlugin, disablePlugin, togglePlugin, enableAll or disableAll call *)
(* that completes with no registry call failing leads to such a state      *)
(* again, as long as no plugin name occurs in two loaded collections.      *)
C31_RegisteredIffEnabled ==
    Agrees(State) =>
        \A c \in Catalogue : \A id \in ArgIds : \A n \in ArgNames :
            \A r \in ActivationCalls(c, id, n) :
                (r.err = "none" /\ NoSharedName(r.st)) => Agrees(r.st)

\* tags callers ask for
ArgTags == {"io", "Log", "log", "none"}

\* the result the filters are to give for the places that match: collection
\* id, entry and the entry's effective state, in the order of the places
ExpectedResults(s, matches(_)) ==
    LET hits == SelectSeq(VisitedFrom(s, 1), matches)
    IN [k \in 1..Len(hits) |->
           [collectionId |-> hits[k].collectionId,
            entry        |-> hits[k].entry,
            enabled      |-> JsBool(Effective(s, hits[k].collectionId, hits[k].entry))]]

(* C32: getPluginsByCategory(cat) and getPluginsByTag(tag) return one      *)
(* result for every entry of every loaded collection that has the category *)
(* (lists the tag) and for no other entry, each with its collection id and *)
(* an enabled flag that is the entry's effective state, in the order of    *)
(* the collections and, within one, of the declaration of the entries.     *)
C32_FiltersGiveEffectiveFlag ==
    /\ \A cat \in PluginCategories :
          getPluginsByCategory(State, cat)
              = ExpectedResults(State, LAMBDA v : v.entry.category = cat)
    /\ \A tag \in ArgTags :
          getPluginsByTag(State, tag)
              = ExpectedResults(State,
                                LAMBDA v : /\ v.entry.tags # Undefined
                                           /\ tag \in NewSet(v.entry.tags.items))

\* queries callers search for
ArgQueries ==
    {"", "logger", "LOG", "Trace", "er", "IO", "Provider", "LOGGER", "zz", "utility"}

\* a string with the case of its letters forgotten
Folded(text) == toLowerCase(Chars(text))

\* the contiguous pieces of a string, the empty one included
Pieces(chars) ==
    { SubSeq(chars, i, j) : i \in 1..(Len(chars) + 1), j \in 0..Len(chars) }

\* the score the scoring table gives an entry for a query
TableScore(entry, query) ==
    LET q       == Folded(query)
        name    == Folded(EntryName(entry))
        tagHits == IF entry.tags = Undefined
                   THEN {}
                   ELSE { k \in 1..Len(entry.tags.items) :
                            q \in Pieces(Folded(entry.tags.items[k])) }
    IN (IF name = q THEN 100 ELSE 0)
       + (IF name # q /\ q \in Pieces(name) THEN 50 ELSE 0)
       + (IF q \in Pieces(Folded(DescriptionOf(entry))) THEN 25 ELSE 0)
       + (IF tagHits # {} THEN 30 ELSE 0)
       + (IF q \in Pieces(Folded(entry.category)) THEN 20 ELSE 0)

\* the results of a search that are about the place v
ResultsAbout(results, v) ==
    { i \in 1..Len(results) :
        results[i].collectionId = v.collectionId /\ results[i].entry = v.entry }

(* C33: for every query and every entry of a loaded collection, the score  *)
(* searchPlugins gives is the sum over the criteria that match, letters    *)
(* compared without case: 100 for a name equal to the query, 50 for a name *)
(* that only contains it, 25 for a description that contains it, 30 when   *)
(* some tag contains it, 20 for a category that contains it; the entry is  *)
(* in the result, once, exactly when that sum is greater than 0.           *)
C33_SearchScoresByTable ==
    \A query \in ArgQueries :
        LET results == searchPlugins(State, query)
            places  == VisitedFrom(State, 1)
        IN /\ \A k \in 1..Len(places) :
                 /\ Cardinality(ResultsAbout(results, places[k]))
                        = IF TableScore(places[k].entry, query) > 0 THEN 1 ELSE 0
                 /\ \A i \in ResultsAbout(results, places[k]) :
                        results[i].score = TableScore(places[k].entry, query)
           /\ \A i \in 1..Len(results) :
                 \E k \in 1..Len(places) : i \in ResultsAbout(results, places[k])

\* 'core' and 'ext' are loaded and the search for "LOG" gives the logger of
\* 'core' 80 (name and tag "Log"), the logger of 'ext' 75 (name and
\* description "LOG shipper"), and leaves the tracer out
C33_Witness ==
    /\ Loaded("core") /\ Loaded("ext")
    /\ \E i, j \in 1..Len(searchPlugins(State, "LOG")) :
          /\ searchPlugins(State, "LOG")[i].collectionId = "core"
          /\ searchPlugins(State, "LOG")[i].score = 80
          /\ searchPlugins(State, "LOG")[j].collectionId = "ext"
          /\ searchPlugins(State, "LOG")[j].score = 75
    /\ Len(searchPlugins(State, "LOG")) < Len(VisitedFrom(State, 1))

\* the place in discovery order a result is about
PlaceOf(s, result) ==
    CHOOSE k \in 1..Len(VisitedFrom(s, 1)) :
        /\ VisitedFrom(s, 1)[k].collectionId = result.collectionId
        /\ VisitedFrom(s, 1)[k].entry = result.entry

(* C34: the list searchPlugins returns is in non-increasing score order,   *)
(* two results of equal score are in discovery order (collections in       *)
(* iteration order, entries in declared order), and so a result whose name *)
(* contains the query comes before one matched by its description alone.   *)
C34_SearchSortedStably ==
    \A query \in ArgQueries :
        LET results == searchPlugins(State, query)
        IN \A i, j \in 1..Len(results) :
              i < j =>
                 /\ results[i].score >= results[j].score
                 /\ results[i].score = results[j].score
                       => PlaceOf(State, results[i]) < PlaceOf(State, results[j])
                 /\ ~ ( /\ results[i].score = 25
                        /\ Folded(query) \in Pieces(Folded(results[j].pluginName)) )

\* 'core' was loaded before 'ext': the search for "Trace" puts the tracer
\* (name, 50) before the logger declared ahead of it (description, 25), and
\* the search for "LOGGER" gives the two loggers 100 each, 'core' first
C34_Witness ==
    /\ Len(State.collections) = 2
    /\ State.collections[1].id = "core" /\ State.collections[2].id = "ext"
    /\ Len(State.collections[1].plugins) = 2
    /\ [k \in 1..2 |-> searchPlugins(State, "Trace")[k].pluginName] = << "tracer", "logger" >>
    /\ [k \in 1..2 |-> searchPlugins(State, "Trace")[k].score] = << 50, 25 >>
    /\ [k \in 1..2 |-> searchPlugins(State, "LOGGER")[k].collectionId] = << "core", "ext" >>
    /\ [k \in 1..2 |-> searchPlugins(State, "LOGGER")[k].score] = << 100, 100 >>

(* C35: loadCollection issues its registry.register calls in the declared  *)
(* order of the collection's entries: of two register calls of one load,   *)
(* the earlier one is for the entry declared earlier.                      *)
C35_LoadRegistersInDeclaredOrder ==
    \A c \in Catalogue : \A orc \in RegisterOracles(NamesOf(c)) :
        LET r == loadCollection(State, c, orc)
        IN \A i, j \in RegisterCalls(r.calls) :
              i < j => DeclaredAt(c, r.calls[i].name) < DeclaredAt(c, r.calls[j].name)

\* 'core' can be loaded and its load registers the logger, declared first,
\* and then the tracer, declared second
C35_Witness ==
    /\ ~Loaded("core")
    /\ \E c \in Catalogue :
          /\ c.id = "core" /\ Len(c.plugins) = 2
          /\ [k \in 1..2 |-> loadCollection(State, c, NoFailure).calls[k].name]
                = << "logger", "tracer" >>
          /\ RegisterCalls(loadCollection(State, c, NoFailure).calls) = {1, 2}

\* the names a call registered: those of its register calls that succeeded
RegisteredBy(cs) == { cs[i].name : i \in { k \in RegisterCalls(cs) : cs[k].ok } }

(* C39: a loadCollection call that fails because a registration fails      *)
(* leaves the collection recorded as loaded with empty override sets:      *)
(* getCollection returns it, a later loadCollection with the same id fails *)
(* as a duplicate and changes nothing, and unloadCollection of that id     *)
(* succeeds, makes an unregister call for each entry the load had          *)
(* registered and, when the registry refuses none of them, leaves none of  *)
(* them registered.                                                        *)
C39_FailedLoadStaysLoaded ==
    \A c \in Catalogue : \A orc \in RegisterOracles(NamesOf(c)) :
        LET r == loadCollection(State, c, orc)
        IN (FailedCalls(r.calls) # {}) =>
              /\ r.err = "RegistrationFailure"
              /\ getCollection(r.st, c.id) = c
              /\ OverridesOf(r.st, c.id) = << {{}}, {{}} >>
              /\ \A c2 \in Catalogue : \A orc2 \in RegisterOracles(NamesOf(c2)) :
                    c2.id = c.id =>
                       /\ loadCollection(r.st, c2, orc2).err = "DuplicateCollection"
                       /\ loadCollection(r.st, c2, orc2).st = r.st
              /\ \A orc2 \in UnregisterOracles(NamesOf(c)) :
                    LET u == unloadCollection(r.st, c.id, orc2)
                    IN /\ u.err = "none"
                       /\ ~Truthy(getCollection(u.st, c.id))
                       /\ RegisteredBy(r.calls)
                             \subseteq { u.calls[k].name : k \in 1..Len(u.calls) }
                       /\ orc2 = NoFailure => RegisteredBy(r.calls) \cap u.st.registered = {}

\* 'core' can be loaded, and a load during which the registry accepts the
\* logger and refuses the tracer fails after having registered the logger
C39_Witness ==
    /\ ~Loaded("core")
    /\ "logger" \notin registered
    /\ \E c \in Catalogue :
          /\ c.id = "core"
          /\ loadCollection(State, c, RefuseRegister("tracer")).err = "RegistrationFailure"
          /\ RegisteredBy(loadCollection(State, c, RefuseRegister("tracer")).calls) = {"logger"}

\* the entry of the loaded collection id that is named n
EntryAt(s, id, n) == FirstEntryNamed(MapGet(s.collections, id), n)

\* n is an entry of the loaded collection id and its effective state is enabled
EnabledIn(s, id, n) ==
    /\ MapHas(s.collections, id)
    /\ n \in NamesIn(s.collections, id)
    /\ Effective(s, id, EntryAt(s, id, n))

RegistersOf(f, n) ==
    Cardinality({ k \in RegisterCalls(f.calls) : f.calls[k].name = n })

\* the calls of slots a and b are enablePlugin calls for one name on two
\* different collections, each loaded when its call started, and the call of
\* a was in flight when the call of b started
EnablesOverlap(a, b) ==
    /\ a # b
    /\ frames[a].op = "enablePlugin" /\ frames[b].op = "enablePlugin"
    /\ frames[a].name = frames[b].name
    /\ frames[a].id # frames[b].id
    /\ a \in frames[b].peers
    /\ frames[a].err # "CollectionNotFound" /\ frames[b].err # "CollectionNotFound"

LoadsOverlap(a, b) ==
    /\ a # b
    /\ frames[a].op = "loadCollection" /\ frames[b].op = "loadCollection"
    /\ frames[a].id = frames[b].id
    /\ a \in frames[b].peers
    /\ ~frames[a].removed

(* C37: when two loadCollection calls with the same collection id are      *)
(* started before either completes, exactly one of them passes the         *)
(* duplicate check and the other fails as a duplicate, at once, under      *)
(* every interleaving: a call that has passed the check has put its        *)
(* collection and both override sets into the maps before it is suspended  *)
(* (as long as no unloadCollection deletes them).                          *)
C37_OneLoadPassesDuplicateTest ==
    /\ \A a, b \in Slots :
          LoadsOverlap(a, b) =>
              /\ frames[a].err # "DuplicateCollection"
              /\ frames[b].pc = "done"
              /\ frames[b].err = "DuplicateCollection"
    /\ \A a \in Slots :
          ( /\ frames[a].op = "loadCollection"
            /\ InFlight(frames[a])
            /\ ~frames[a].removed )
          => /\ MapGet(collections, frames[a].id) = frames[a].collection
             /\ frames[a].id \in DOMAIN enabledOverrides
             /\ frames[a].id \in DOMAIN disabledOverrides

\* a loadCollection of 'core' is suspended at a registry call, and a second
\* loadCollection of 'core', started meanwhile, has failed as a duplicate
C37_Witness ==
    \E a, b \in Slots :
        /\ LoadsOverlap(a, b)
        /\ frames[a].id = "core"
        /\ frames[a].pc = "registry"
        /\ frames[b].err = "DuplicateCollection"

\* the methods that walk the entries of collections
BulkOps ==
    {"loadCollection", "unloadCollection", "enableAll", "disableAll",
     "enableCategory", "disableCategory"}

\* how often the name n occurs in a sequence of records with a name, or of names
TimesIn(names, n) == Cardinality({ k \in 1..Len(names) : names[k] = n })

\* a call has made no more registry calls for a name than its loops have
\* reached entries of that name
OneCallPerEntry(f) ==
    \A n \in ArgNames :
        TimesIn([k \in 1..Len(f.calls) |-> f.calls[k].name], n) <= TimesIn(f.visited, n)

(* C40: provided every plugin-factory resolution and every registry call   *)
(* returns or fails in the end (the fairness of SpecLive), every           *)
(* loadCollection, unloadCollection, enableAll, disableAll, enableCategory *)
(* and disableCategory call in flight completes in the end, and at no time *)
(* has it made more than one register or unregister call for an entry it   *)
(* covers.                                                                 *)
C40_BulkCallsComplete ==
    /\ [](\A slot \in Slots :
             frames[slot].op \in BulkOps => OneCallPerEntry(frames[slot]))
    /\ \A slot \in Slots :
          (frames[slot].op \in BulkOps /\ InFlight(frames[slot]))
              ~> ~InFlight(frames[slot])

\* a loadCollection has completed after one register call for each of its
\* two entries
C40_Witness ==
    \E a \in Slots :
        /\ frames[a].op = "loadCollection"
        /\ frames[a].pc = "done"
        /\ frames[a].err = "none"
        /\ Len(frames[a].calls) = 2
        /\ Len(frames[a].visited) = 2

=============================================================================
